---- MODULE Spec2Model ----
(***************************************************************************)
(* The identity registrar's verification state machine: the IdentityManager *)
(* of the state module (four maps, insert_identity, update_field,          *)
(* verify_message, verify_display_name, persist_display_name) together with *)
(* the value types it works on.                                            *)
(***************************************************************************)
EXTENDS Integers, Sequences, FiniteSets, TLC

VARIABLES
    identities,          \* HashMap<NetworkAddress, HashMap<IdentityFieldType, FieldStatus>>
    lookup_addresses,    \* HashMap<IdentityField, HashSet<NetworkAddress>>
    display_names,       \* HashMap<NetworkAddress, DisplayName>
    on_chain_challenges, \* HashMap<NetworkAddress, OnChainChallenge>
    outcomes,            \* VerificationOutcomes handed to the event store, not yet forgotten
    last,                \* the last call made on the manager and what it returned
    nops,                \* number of calls so far that changed one of the maps
    limit,               \* DisplayNameHandler.limit, the configured threshold
    email,               \* EmailHandler: its poll of the mailbox and the database behind it
    matrix,              \* MatrixClient: the join loop of every room that invited it
    manager,             \* the channel-driven IdentityManager: idents, its database, what it sent
    engine               \* DisplayNameHandler: its calls in flight and what they wrote to the database

\* The state of the IdentityManager and of the similarity engine.
core_vars == <<identities, lookup_addresses, display_names, on_chain_challenges,
               outcomes, last, nops, limit>>

\* The state of the adapters and of the channel-driven manager.
adapter_vars == <<email, matrix, manager, engine>>

vars == <<core_vars, adapter_vars>>

(*************************** bounds of the model ***************************)

\* Calls that change the manager's maps in a run (calls that change nothing
\* are not counted).
MaxOps == 4

\* Outcomes the event store holds at once in the replay flow.
MaxPending == 2

\* The longest registry of display names the similarity engine starts from.
MaxNames == 6

\* Polls of the mailbox in a run of the e-mail adapter.
MaxPolls == 2

(****************************** Option / Result ****************************)

None == [some |-> FALSE]

Some(x) == [some |-> TRUE, val |-> x]

Ok(x) == [ok |-> TRUE, val |-> x]

Err(msg) == [ok |-> FALSE, err |-> msg]

Unit == [unit |-> TRUE]

(************************** strings as characters **************************)

\* The characters of the strings the model uses (TLC cannot index a string).
Chars(s) ==
    CASE s = ""   -> <<>>
      [] s = "a"  -> <<"a">>
      [] s = "a1" -> <<"a", "1">>
      [] s = "b2" -> <<"b", "2">>
      [] s = "c3" -> <<"c", "3">>
      [] s = "d4" -> <<"d", "4">>
      [] s = "zz" -> <<"z", "z">>
      [] s = "a1b2" -> <<"a", "1", "b", "2">>
      [] s = "w3f_registrar:0" ->
            <<"w", "3", "f", "_", "r", "e", "g", "i", "s", "t", "r", "a", "r", ":", "0">>
      [] s = "w3f_registrar:01" ->
            <<"w", "3", "f", "_", "r", "e", "g", "i", "s", "t", "r", "a", "r", ":", "0", "1">>
      [] s = "w3f_registrar:02" ->
            <<"w", "3", "f", "_", "r", "e", "g", "i", "s", "t", "r", "a", "r", ":", "0", "2">>
      [] s = "w3f_registrar:01!" ->
            <<"w", "3", "f", "_", "r", "e", "g", "i", "s", "t", "r", "a", "r", ":", "0", "1", "!">>

\* str::contains: pat occurs in s as a contiguous substring.
StrContains(s, pat) ==
    LET cs == Chars(s)
        cp == Chars(pat)
    IN  \E i \in 0 .. (Len(cs) - Len(cp)) :
            \A j \in 1 .. Len(cp) : cs[i + j] = cp[j]

(******************************* value types *******************************)

Valid == "valid"

Invalid == "invalid"

Unconfirmed == "unconfirmed"

Validity == {Valid, Invalid, Unconfirmed}

NetworkAddress == {"alice", "bob"}

\* IdentityField::{LegalName, DisplayName, Email, Web, Twitter, Matrix,
\* PGPFingerprint}(addr), Image, Additional.
IdentityFieldType ==
    {"legal_name", "display_name", "email", "web", "twitter", "matrix",
     "pgp_fingerprint", "image", "additional"}

Field(ty, addr) == [ty |-> ty, addr |-> addr]

as_type(field) == field.ty

\* RegistrarIdentityField: the registrar's own account of the same type.
RegistrarIdentityField(ty) == [field |-> Field(ty, "registrar")]

ExpectMessage(em, from, to, status) ==
    [type |-> "expect_message", expected_message |-> em, from |-> from,
     to |-> to, status |-> status]

BackAndForth(em, emb, from, to, first, second) ==
    [type |-> "back_and_forth", expected_message |-> em,
     expected_message_back |-> emb, from |-> from, to |-> to,
     first_check_status |-> first, second_check_status |-> second]

CheckDisplayName(status, similarities) ==
    [type |-> "display_name_check", status |-> status,
     similarities |-> similarities]

Unsupported == [type |-> "unsupported"]

\* A faulty factory that gives a web field a message challenge.
\* C25_ChallengeFactory fails with it.
ChallengeStatusFrom_web_supported(from, to, em, emb) ==
    CASE from.ty \in {"legal_name", "pgp_fingerprint", "image", "additional"} ->
            Unsupported
      [] from.ty = "display_name" -> CheckDisplayName(Unconfirmed, None)
      [] from.ty = "email" ->
            BackAndForth(em, emb, from, to, Unconfirmed, Unconfirmed)
      [] from.ty \in {"twitter", "matrix", "web"} ->
            ExpectMessage(em, from, to, Unconfirmed)

\* impl From<(IdentityField, RegistrarIdentityField)> for ChallengeStatus;
\* em and emb are the two draws of ExpectedMessage::gen().
ChallengeStatusFrom(from, to, em, emb) ==
    CASE from.ty \in {"legal_name", "pgp_fingerprint", "web", "image", "additional"} ->
            Unsupported
      [] from.ty = "display_name" -> CheckDisplayName(Unconfirmed, None)
      [] from.ty = "email" ->
            BackAndForth(em, emb, from, to, Unconfirmed, Unconfirmed)
      [] from.ty \in {"twitter", "matrix"} ->
            ExpectMessage(em, from, to, Unconfirmed)

\* impl From<(IdentityField, RegistrarIdentityField)> for FieldStatus
FieldStatusFrom(from, to, em, emb) ==
    LET challenge == ChallengeStatusFrom(from, to, em, emb)
    IN  [field |-> from,
         is_permitted |-> (challenge.type # "unsupported"),
         challenge |-> challenge]

\* A faulty is_valid for which a BackAndForth challenge is valid once its
\* first check is.  C23_FullyVerified fails with it.
is_valid_on_first_check(status) ==
    CASE status.challenge.type = "expect_message" ->
            status.challenge.status = Valid
      [] status.challenge.type = "back_and_forth" ->
            status.challenge.first_check_status = Valid
      [] status.challenge.type = "display_name_check" ->
            status.challenge.status = Valid
      [] status.challenge.type = "unsupported" -> FALSE

\* A faulty is_valid that lets an Unsupported challenge pass, as if there
\* were nothing to verify.  C35_UnsupportedNeverFullyVerified fails with it.
is_valid_unsupported_passes(status) ==
    CASE status.challenge.type = "expect_message" ->
            status.challenge.status = Valid
      [] status.challenge.type = "back_and_forth" ->
            /\ status.challenge.first_check_status = Valid
            /\ status.challenge.second_check_status = Valid
      [] status.challenge.type = "display_name_check" ->
            status.challenge.status = Valid
      [] status.challenge.type = "unsupported" -> TRUE

\* FieldStatus::is_valid
is_valid(status) ==
    CASE status.challenge.type = "expect_message" ->
            status.challenge.status = Valid
      [] status.challenge.type = "back_and_forth" ->
            /\ status.challenge.first_check_status = Valid
            /\ status.challenge.second_check_status = Valid
      [] status.challenge.type = "display_name_check" ->
            status.challenge.status = Valid
      [] status.challenge.type = "unsupported" -> FALSE

\* FieldStatus::is_not_valid
is_not_valid(status) == ~is_valid(status)

\* A faulty ExpectedMessage::contains that looks at the first part of the
\* message only.  C16_ExpectMessageOutcome fails with it.
contains_first_part(expected, parts) ==
    IF parts # <<>> /\ StrContains(expected, Head(parts))
    THEN Some(Head(parts))
    ELSE None

\* ExpectedMessage::contains: the first part of the message whose raw value
\* is a substring of the expected value.
RECURSIVE contains(_, _)
contains(expected, parts) ==
    IF parts = <<>> THEN None
    ELSE IF StrContains(expected, Head(parts)) THEN Some(Head(parts))
    ELSE contains(expected, Tail(parts))

(***************************** map helpers *********************************)

Restrict(f, S) == [k \in (DOMAIN f) \cap S |-> f[k]]

\* HashMap::insert / entry().or_insert of one key.
Put(f, k, v) == [x \in (DOMAIN f) \cup {k} |-> IF x = k THEN v ELSE f[x]]

\* f overridden by every entry of g.
Merge(f, g) == [x \in (DOMAIN f) \cup (DOMAIN g) |-> IF x \in DOMAIN g THEN g[x] ELSE f[x]]

(*************************** IdentityManager ********************************)

\* IdentityManager::lookup_field_status
lookup_field_status(net_address, field) ==
    IF net_address \in DOMAIN identities
       /\ as_type(field) \in DOMAIN identities[net_address]
    THEN Some(identities[net_address][as_type(field)])
    ELSE None

\* IdentityManager::lookup_addresses (the method): the holders of the field.
lookup_addresses_of(field) ==
    IF field \in DOMAIN lookup_addresses
    THEN Some(lookup_addresses[field])
    ELSE None

\* A faulty reconciliation that takes every incoming status, also for the
\* fields whose address did not change.  C13_ReconciliationKeepsProgress
\* fails with it.
reconcile_replacing_all(current_fields, new_fields) ==
    [current_fields |-> new_fields,
     new_fields |-> IF current_fields = new_fields THEN new_fields
                    ELSE [ty \in {t \in DOMAIN new_fields :
                                    IF t \in DOMAIN current_fields
                                    THEN current_fields[t].field # new_fields[t].field
                                    ELSE TRUE} |-> new_fields[ty]]]

\* A faulty reconciliation without the first retain: the stored entries
\* whose type is absent from the new fields stay.
\* C14_ReconciliationTakesNewFields fails with it.
reconcile_keeping_absent(current_fields, new_fields) ==
    IF current_fields = new_fields
    THEN [current_fields |-> current_fields, new_fields |-> new_fields]
    ELSE LET changed == [ty \in {t \in DOMAIN new_fields :
                                    IF t \in DOMAIN current_fields
                                    THEN current_fields[t].field # new_fields[t].field
                                    ELSE TRUE} |-> new_fields[ty]]
         IN  [current_fields |->
                 [ty \in (DOMAIN current_fields) \cup (DOMAIN changed) |->
                     IF ty \in DOMAIN changed THEN changed[ty] ELSE current_fields[ty]],
              new_fields |-> changed]

\* The closure of and_modify in insert_identity: the stored fields after
\* reconciliation, and what is left of new_fields after its retain.
reconcile(current_fields, new_fields) ==
    IF current_fields = new_fields
    THEN [current_fields |-> current_fields, new_fields |-> new_fields]
    ELSE LET kept == Restrict(current_fields, DOMAIN new_fields)
             changed == Restrict(new_fields,
                            {ty \in DOMAIN new_fields :
                                IF ty \in DOMAIN kept
                                THEN kept[ty].field # new_fields[ty].field
                                ELSE TRUE})
         IN  [current_fields |-> Merge(kept, changed), new_fields |-> changed]

\* "Create lookup tables": every field left in new_fields gets net_address.
add_lookups(lookup, net_address, new_fields) ==
    LET added == {new_fields[ty].field : ty \in DOMAIN new_fields}
    IN  [f \in (DOMAIN lookup) \cup added |->
            IF f \in added
            THEN (IF f \in DOMAIN lookup THEN lookup[f] ELSE {}) \cup {net_address}
            ELSE lookup[f]]

\* UpdateChanges::NewIdentityInserted
NewIdentityInserted(net_address) ==
    [kind |-> "NewIdentityInserted", net_address |-> net_address]

\* A faulty insert_identity that never creates the on-chain challenge.
\* C11_ChallengeForEveryIdentity fails with it.
insert_identity_without_challenge(identity) ==
    LET net_address == identity.net_address
        r == IF net_address \in DOMAIN identities
             THEN reconcile(identities[net_address], identity.fields)
             ELSE [current_fields |-> identity.fields, new_fields |-> identity.fields]
    IN  [identities |-> Put(identities, net_address, r.current_fields),
         lookup_addresses |-> add_lookups(lookup_addresses, net_address, r.new_fields),
         on_chain_challenges |-> on_chain_challenges,
         result |-> Unit]

\* A faulty insert_identity that announces a new identity on every call.
\* C15_SameInsertTwice fails with it.
insert_identity_announcing(identity) ==
    LET net_address == identity.net_address
        r == IF net_address \in DOMAIN identities
             THEN reconcile(identities[net_address], identity.fields)
             ELSE [current_fields |-> identity.fields, new_fields |-> identity.fields]
    IN  [identities |-> Put(identities, net_address, r.current_fields),
         lookup_addresses |-> add_lookups(lookup_addresses, net_address, r.new_fields),
         on_chain_challenges |->
            IF net_address \in DOMAIN on_chain_challenges
            THEN on_chain_challenges
            ELSE Put(on_chain_challenges, net_address, identity.on_chain_challenge),
         result |-> Some(NewIdentityInserted(net_address))]

\* IdentityManager::insert_identity: the three maps it writes, and what it
\* returns (the method has no return value).
insert_identity(identity) ==
    LET net_address == identity.net_address
        r == IF net_address \in DOMAIN identities
             THEN reconcile(identities[net_address], identity.fields)
             ELSE [current_fields |-> identity.fields, new_fields |-> identity.fields]
    IN  [identities |-> Put(identities, net_address, r.current_fields),
         lookup_addresses |-> add_lookups(lookup_addresses, net_address, r.new_fields),
         on_chain_challenges |->
            IF net_address \in DOMAIN on_chain_challenges
            THEN on_chain_challenges
            ELSE Put(on_chain_challenges, net_address, identity.on_chain_challenge),
         result |-> Unit]

Changes(kind, field) == [kind |-> kind, field |-> field]

\* The match on a single Validity in update_changes.
changes_of(validity, field, on_valid) ==
    CASE validity = Valid -> Some(Changes(on_valid, field))
      [] validity = Invalid -> Some(Changes("VerificationInvalid", field))
      [] validity = Unconfirmed -> None

\* A faulty update_changes, without its first test: a status that is already
\* valid is treated like any other.  C2_ValidIsFinal fails with it.
update_changes_without_final(current_status, verified_status) ==
    LET field == verified_status.field
        new == verified_status.challenge
        cur == current_status.challenge
    IN  CASE new.type = "expect_message" ->
               changes_of(new.status, field, "VerificationValid")
          [] new.type = "display_name_check" ->
               changes_of(new.status, field, "VerificationValid")
          [] new.type = "back_and_forth" ->
               IF cur.type # "back_and_forth" THEN None
               ELSE IF cur.first_check_status # Valid
               THEN changes_of(new.first_check_status, field, "VerificationValid")
               ELSE changes_of(new.second_check_status, field, "BackAndForthExpected")
          [] new.type = "unsupported" -> None

\* A faulty update_changes for which a failed check is final as well.
\* C17_InvalidIsNotTerminal fails with it.
update_changes_invalid_final(current_status, verified_status) ==
    LET cur == current_status.challenge
        failed == CASE cur.type = "expect_message" -> cur.status = Invalid
                    [] cur.type = "display_name_check" -> cur.status = Invalid
                    [] cur.type = "back_and_forth" ->
                          \/ cur.first_check_status = Invalid
                          \/ cur.second_check_status = Invalid
                    [] cur.type = "unsupported" -> FALSE
    IN  IF is_valid(current_status) \/ failed THEN None
        ELSE update_changes_without_final(current_status, verified_status)

\* IdentityManager::update_changes
update_changes(current_status, verified_status) ==
    IF is_valid(current_status) THEN None
    ELSE IF is_not_valid(current_status)
    THEN LET field == verified_status.field
             new == verified_status.challenge
             cur == current_status.challenge
         IN  CASE new.type = "expect_message" ->
                    changes_of(new.status, field, "VerificationValid")
               [] new.type = "display_name_check" ->
                    changes_of(new.status, field, "VerificationValid")
               [] new.type = "back_and_forth" ->
                    IF cur.type # "back_and_forth" THEN None
                    ELSE IF cur.first_check_status # Valid
                    THEN changes_of(new.first_check_status, field, "VerificationValid")
                    ELSE IF cur.second_check_status # Valid
                    THEN changes_of(new.second_check_status, field, "BackAndForthExpected")
                    ELSE None
               [] new.type = "unsupported" -> None
    ELSE None

\* A faulty update_field that commits the supplied status whether or not
\* update_changes produced changes.  C20_UpdateFieldRejectsCleanly fails with
\* it.
update_field_always_commits(verified) ==
    LET a == verified.net_address
        ty == as_type(verified.field_status.field)
    IN  IF a \notin DOMAIN identities
        THEN [result |-> Err("network address not found"), identities |-> identities]
        ELSE IF ty \notin DOMAIN identities[a]
        THEN [result |-> Err("field not found"), identities |-> identities]
        ELSE [result |-> Ok(update_changes(identities[a][ty], verified.field_status)),
              identities |-> [identities EXCEPT ![a] = Put(@, ty, verified.field_status)]]

\* IdentityManager::update_field: what it returns and the identities map after.
update_field(verified) ==
    LET a == verified.net_address
        ty == as_type(verified.field_status.field)
    IN  IF a \notin DOMAIN identities
        THEN [result |-> Err("network address not found"), identities |-> identities]
        ELSE IF ty \notin DOMAIN identities[a]
        THEN [result |-> Err("field not found"), identities |-> identities]
        ELSE LET changes == update_changes(identities[a][ty], verified.field_status)
             IN  [result |-> Ok(changes),
                  identities |->
                    IF changes.some
                    THEN [identities EXCEPT ![a] = Put(@, ty, verified.field_status)]
                    ELSE identities]

Outcome(net_address, field_status) ==
    [net_address |-> net_address, field_status |-> field_status]

\* A faulty verify_one, with the first leg of a BackAndForth challenge
\* tested only while it is unconfirmed (instead of while it is not valid): a
\* first leg that failed goes on to the second.  C6_SecondImpliesFirst fails
\* with it.
verify_one_first_leg_once(net_address, field_status, provided_message) ==
    LET c == field_status.challenge
        with(challenge) == [net_address |-> net_address,
                            field_status |-> [field_status EXCEPT !.challenge = challenge]]
    IN  CASE c.type = "expect_message" ->
                IF c.status # Valid
                THEN [continue |-> FALSE,
                      ret |-> Some(with(
                        IF contains(c.expected_message, provided_message).some
                        THEN [c EXCEPT !.status = Valid]
                        ELSE [c EXCEPT !.status = Invalid]))]
                ELSE [continue |-> TRUE, ret |-> None]
          [] c.type = "back_and_forth" ->
                IF c.first_check_status = Unconfirmed
                THEN [continue |-> FALSE,
                      ret |-> Some(with(
                        IF contains(c.expected_message, provided_message).some
                        THEN [c EXCEPT !.first_check_status = Valid]
                        ELSE [c EXCEPT !.first_check_status = Invalid]))]
                ELSE IF c.second_check_status # Valid
                THEN [continue |-> FALSE,
                      ret |-> Some(with(
                        IF contains(c.expected_message_back, provided_message).some
                        THEN [c EXCEPT !.second_check_status = Valid]
                        ELSE [c EXCEPT !.second_check_status = Invalid]))]
                ELSE [continue |-> FALSE, ret |-> None]
          [] c.type = "display_name_check" -> [continue |-> TRUE, ret |-> None]
          [] c.type = "unsupported" -> [continue |-> TRUE, ret |-> None]

\* A faulty verify_one that accepts the back token before the first leg is
\* valid.  C18_SecondLegAfterFirst fails with it.
verify_one_either_leg(net_address, field_status, provided_message) ==
    LET c == field_status.challenge
        with(challenge) == [net_address |-> net_address,
                            field_status |-> [field_status EXCEPT !.challenge = challenge]]
    IN  CASE c.type = "expect_message" ->
                IF c.status # Valid
                THEN [continue |-> FALSE,
                      ret |-> Some(with(
                        IF contains(c.expected_message, provided_message).some
                        THEN [c EXCEPT !.status = Valid]
                        ELSE [c EXCEPT !.status = Invalid]))]
                ELSE [continue |-> TRUE, ret |-> None]
          [] c.type = "back_and_forth" ->
                IF c.first_check_status # Valid
                THEN [continue |-> FALSE,
                      ret |-> Some(with(
                        IF contains(c.expected_message, provided_message).some
                        THEN [c EXCEPT !.first_check_status = Valid]
                        ELSE IF contains(c.expected_message_back, provided_message).some
                        THEN [c EXCEPT !.second_check_status = Valid]
                        ELSE [c EXCEPT !.first_check_status = Invalid]))]
                ELSE IF c.second_check_status # Valid
                THEN [continue |-> FALSE,
                      ret |-> Some(with(
                        IF contains(c.expected_message_back, provided_message).some
                        THEN [c EXCEPT !.second_check_status = Valid]
                        ELSE [c EXCEPT !.second_check_status = Invalid]))]
                ELSE [continue |-> FALSE, ret |-> None]
          [] c.type = "display_name_check" -> [continue |-> TRUE, ret |-> None]
          [] c.type = "unsupported" -> [continue |-> TRUE, ret |-> None]

\* A faulty verify_one that answers for an Unsupported challenge with the
\* status as stored instead of going on.  C24_UnrecognizedHasNoEffect fails
\* with it.
verify_one_answering_unsupported(net_address, field_status, provided_message) ==
    LET c == field_status.challenge
        with(challenge) == [net_address |-> net_address,
                            field_status |-> [field_status EXCEPT !.challenge = challenge]]
    IN  CASE c.type = "expect_message" ->
                IF c.status # Valid
                THEN [continue |-> FALSE,
                      ret |-> Some(with(
                        IF contains(c.expected_message, provided_message).some
                        THEN [c EXCEPT !.status = Valid]
                        ELSE [c EXCEPT !.status = Invalid]))]
                ELSE [continue |-> TRUE, ret |-> None]
          [] c.type = "back_and_forth" ->
                IF c.first_check_status # Valid
                THEN [continue |-> FALSE,
                      ret |-> Some(with(
                        IF contains(c.expected_message, provided_message).some
                        THEN [c EXCEPT !.first_check_status = Valid]
                        ELSE [c EXCEPT !.first_check_status = Invalid]))]
                ELSE IF c.second_check_status # Valid
                THEN [continue |-> FALSE,
                      ret |-> Some(with(
                        IF contains(c.expected_message_back, provided_message).some
                        THEN [c EXCEPT !.second_check_status = Valid]
                        ELSE [c EXCEPT !.second_check_status = Invalid]))]
                ELSE [continue |-> FALSE, ret |-> None]
          [] c.type = "display_name_check" -> [continue |-> TRUE, ret |-> None]
          [] c.type = "unsupported" -> [continue |-> FALSE, ret |-> Some(with(c))]

\* The body of the loop of verify_message for one holder: "continue" when the
\* loop goes on to the next address, else the value verify_message returns.
verify_one(net_address, field_status, provided_message) ==
    LET c == field_status.challenge
        with(challenge) == Outcome(net_address, [field_status EXCEPT !.challenge = challenge])
    IN  CASE c.type = "expect_message" ->
                IF c.status # Valid
                THEN [continue |-> FALSE,
                      ret |-> Some(with(
                        IF contains(c.expected_message, provided_message).some
                        THEN [c EXCEPT !.status = Valid]
                        ELSE [c EXCEPT !.status = Invalid]))]
                ELSE [continue |-> TRUE, ret |-> None]
          [] c.type = "back_and_forth" ->
                IF c.first_check_status # Valid
                THEN [continue |-> FALSE,
                      ret |-> Some(with(
                        IF contains(c.expected_message, provided_message).some
                        THEN [c EXCEPT !.first_check_status = Valid]
                        ELSE [c EXCEPT !.first_check_status = Invalid]))]
                ELSE IF c.second_check_status # Valid
                THEN [continue |-> FALSE,
                      ret |-> Some(with(
                        IF contains(c.expected_message_back, provided_message).some
                        THEN [c EXCEPT !.second_check_status = Valid]
                        ELSE [c EXCEPT !.second_check_status = Invalid]))]
                ELSE [continue |-> FALSE, ret |-> None]
          [] c.type = "display_name_check" -> [continue |-> TRUE, ret |-> None]
          [] c.type = "unsupported" -> [continue |-> TRUE, ret |-> None]

\* The loop of verify_message over the holders in the order the HashSet
\* yields them.
RECURSIVE verify_loop(_, _, _)
verify_loop(net_addresses, field, provided_message) ==
    IF net_addresses = <<>> THEN None
    ELSE LET net_address == Head(net_addresses)
             field_status == lookup_field_status(net_address, field)
         IN  IF field_status.some
             THEN LET r == verify_one(net_address, field_status.val, provided_message)
                  IN  IF r.continue
                      THEN verify_loop(Tail(net_addresses), field, provided_message)
                      ELSE r.ret
             ELSE verify_loop(Tail(net_addresses), field, provided_message)

\* The orders in which a HashSet or HashMap may yield the elements of S.
Orders(S) ==
    {o \in [1 .. Cardinality(S) -> S] : \A x \in S : \E i \in DOMAIN o : o[i] = x}

\* IdentityManager::verify_message, for one iteration order of the holders.
verify_message(field, provided_message, order) ==
    IF lookup_addresses_of(field).some
    THEN verify_loop(order, field, provided_message)
    ELSE None

(************************* display-name similarity **************************)

\* Rationals num/den with den >= 0 stand for the f64 values compared.
RatGt(r, q) == r[1] * q[2] > q[1] * r[2]

RatAdd(r, q) == <<r[1] * q[2] + q[1] * r[2], r[2] * q[2]>>

Max(x, y) == IF x >= y THEN x ELSE y

Min(x, y) == IF x <= y THEN x ELSE y

\* The threshold the service is configured with, 0.85.
Limit == <<85, 100>>

\* The element of a one-element set; The({e(v) : v \in {x}}) is e on the
\* value of x, which is computed once.
The(S) == CHOOSE r \in S : TRUE

\* One turn of the outer loop of strsim::jaro, for the character of a at
\* index i (0-based): the first unconsumed equal character of b within the
\* search range is consumed.
jaro_step(a, b, i, st) ==
    LET search_range == (Max(Len(a), Len(b)) \div 2) - 1
        min_bound == IF i > search_range THEN Max(0, i - search_range) ELSE 0
        max_bound == Min(Len(b) - 1, i + search_range)
        hits == {j \in min_bound .. max_bound :
                    a[i + 1] = b[j + 1] /\ j \notin st.b_consumed}
    IN  IF hits = {} THEN st
        ELSE The({[b_consumed |-> st.b_consumed \cup {j},
                   matches |-> st.matches + 1,
                   transpositions |-> IF j < st.b_match_index
                                      THEN st.transpositions + 1
                                      ELSE st.transpositions,
                   b_match_index |-> j]
                  : j \in {CHOOSE x \in hits : \A y \in hits : x <= y}})

\* The outer loop of strsim::jaro from index i.
RECURSIVE jaro_scan(_, _, _, _)
jaro_scan(a, b, i, st) ==
    IF i >= Len(a) THEN st
    ELSE The({jaro_scan(a, b, i + 1, next) : next \in {jaro_step(a, b, i, st)}})

\* A faulty jaro that divides the matches by the length of the first string
\* for both strings.  C29_AliciaAccepted fails with it.
jaro_over_first_length(a, b) ==
    IF Len(a) = 0 /\ Len(b) = 0 THEN <<1, 1>>
    ELSE IF Len(a) = 0 \/ Len(b) = 0 THEN <<0, 1>>
    ELSE IF Len(a) = 1 /\ Len(b) = 1 THEN (IF a = b THEN <<1, 1>> ELSE <<0, 1>>)
    ELSE The({IF r.matches = 0 THEN <<0, 1>>
              ELSE <<2 * r.matches * r.matches + (r.matches - r.transpositions) * Len(a),
                     3 * Len(a) * r.matches>>
              : r \in {jaro_scan(a, b, 0,
                         [b_consumed |-> {}, matches |-> 0, transpositions |-> 0,
                          b_match_index |-> 0])}})

\* strsim::jaro on two character sequences, as a rational.
jaro(a, b) ==
    IF Len(a) = 0 /\ Len(b) = 0 THEN <<1, 1>>
    ELSE IF Len(a) = 0 \/ Len(b) = 0 THEN <<0, 1>>
    ELSE IF Len(a) = 1 /\ Len(b) = 1 THEN (IF a = b THEN <<1, 1>> ELSE <<0, 1>>)
    ELSE The({IF r.matches = 0 THEN <<0, 1>>
              ELSE <<r.matches * r.matches * Len(b) + r.matches * r.matches * Len(a)
                       + (r.matches - r.transpositions) * Len(a) * Len(b),
                     3 * Len(a) * Len(b) * r.matches>>
              : r \in {jaro_scan(a, b, 0,
                         [b_consumed |-> {}, matches |-> 0, transpositions |-> 0,
                          b_match_index |-> 0])}})

\* str::split on a one-character delimiter: the pieces between the
\* delimiters, in order (one more piece than there are delimiters).
split(cs, delimiter) ==
    LET cuts == {i \in 1 .. Len(cs) : cs[i] = delimiter}
        starts == {1} \cup {i + 1 : i \in cuts}
        end(s) == IF \E i \in cuts : i >= s
                  THEN (CHOOSE i \in cuts : i >= s /\ \A k \in cuts : k >= s => i <= k) - 1
                  ELSE Len(cs)
        nth(n) == CHOOSE s \in starts : Cardinality({t \in starts : t < s}) = n - 1
    IN  [n \in 1 .. Cardinality(starts) |-> SubSeq(cs, nth(n), end(nth(n)))]

\* str::trim (the only white space of the model is the blank).
trim(w) ==
    LET inked == {i \in 1 .. Len(w) : w[i] # " "}
    IN  IF inked = {} THEN <<>>
        ELSE SubSeq(w, CHOOSE i \in inked : \A k \in inked : i <= k,
                       CHOOSE i \in inked : \A k \in inked : i >= k)

\* split(delimiter).map(trim).filter(!is_empty).collect()
words(cs, delimiter) ==
    LET keep(w) == w # <<>>
    IN  The({SelectSeq([i \in 1 .. Len(pieces) |-> trim(pieces[i])], keep)
             : pieces \in {split(cs, delimiter)}})

\* The inner loop of jaro_words: the greatest of jaro(left_word, r) over the
\* right words, and 0.0 when there is none.
best_word(left_word, right_words) ==
    LET sims == {jaro(left_word, right_words[k]) : k \in 1 .. Len(right_words)}
    IN  IF sims = {} THEN <<0, 1>>
        ELSE CHOOSE sim \in sims : \A other \in sims : ~RatGt(other, sim)

\* The outer loop of jaro_words: the total over the left words.
sum_best(left_words, right_words) ==
    LET best == [k \in 1 .. Len(left_words) |-> best_word(left_words[k], right_words)]
        total[n \in 0 .. Len(left_words)] ==
            IF n = 0 THEN <<0, 1>> ELSE RatAdd(total[n - 1], best[n])
    IN  total[Len(left_words)]

\* jaro_words: total / max(left_words.len(), right_words.len()); a zero
\* denominator is the NaN of 0.0 / 0.0, which no comparison finds greater.
jaro_words(left, right, delimiter) ==
    The({The({<<total[1], total[2] * Max(Len(w[1]), Len(w[2]))>>
              : total \in {sum_best(w[1], w[2])}})
         : w \in {[side \in 1 .. 2 |->
                     words(IF side = 1 THEN left ELSE right, delimiter)]}})

\* char::to_lowercase on the letters the model uses.
lower(c) ==
    CASE c = "A" -> "a"
      [] c = "B" -> "b"
      [] c = "I" -> "i"
      [] OTHER -> c

\* A faulty to_lowercase that leaves the string as it is.
\* C28_IdenticalNamesConflictBelowOne fails with it.
to_lowercase_unchanged(cs) == cs

to_lowercase(cs) == [i \in 1 .. Len(cs) |-> lower(cs[i])]

\* The characters of the display names of the model.
NameChars(name) ==
    CASE name = "Alice"  -> <<"A", "l", "i", "c", "e">>
      [] name = "Alicia" -> <<"A", "l", "i", "c", "i", "a">>
      [] name = "Bob"    -> <<"B", "o", "b">>
      [] name = "alice"  -> <<"a", "l", "i", "c", "e">>
      [] name = "Alice Bob" -> <<"A", "l", "i", "c", "e", " ", "B", "o", "b">>
      [] name = "Bob Alice" -> <<"B", "o", "b", " ", "A", "l", "i", "c", "e">>
      [] name = "Alice-Bob" -> <<"A", "l", "i", "c", "e", "-", "B", "o", "b">>
      [] name = "Bob-Alice" -> <<"B", "o", "b", "-", "A", "l", "i", "c", "e">>
      [] name = "Alice_Bob" -> <<"A", "l", "i", "c", "e", "_", "B", "o", "b">>
      [] name = "Bob_Alice" -> <<"B", "o", "b", "_", "A", "l", "i", "c", "e">>

\* The display names claimed in judgement requests.
DisplayNames == {"Alice", "Alicia", "Bob"}

\* The display names the similarity engine is tried on: those, a name that
\* differs from one of them in case only, and names of two words in either
\* order for each delimiter.
EngineNames ==
    DisplayNames \cup {"alice", "Alice Bob", "Bob Alice", "Alice-Bob", "Bob-Alice",
                       "Alice_Bob", "Bob_Alice"}

\* A faulty array of similarities, with the similarity of the whole
\* strings only.  C27_ConflictIffSomeSimilarityAboveLimit fails with it.
similarities_of_whole_strings(display_name, account) ==
    {jaro(to_lowercase(NameChars(display_name)), to_lowercase(NameChars(account)))}

\* The array similarities of is_too_similar (as the set of its values).
similarities(display_name, account) ==
    The({The({{jaro(name_str, account_str)}
              \cup {jaro_words(name_str, account_str, delimiter)
                       : delimiter \in {" ", "-", "_"}}
              : account_str \in {to_lowercase(NameChars(account))}})
         : name_str \in {to_lowercase(NameChars(display_name))}})

\* similarities on every pair of names of the model, computed once:
\* <<existing, candidate, similarities>>.
Similarities ==
    {<<p[1], p[2], similarities(p[1], p[2])>> : p \in EngineNames \X EngineNames}

\* DisplayNameHandler::is_too_similar
is_too_similar(display_name, account) ==
    \E of \in Similarities :
       /\ of[1] = display_name
       /\ of[2] = account
       /\ \E s \in of[3] : RatGt(s, limit)

VIOLATIONS_CAP == 5

\* A faulty loop without the cap.  C26_ViolationsCapped fails with it.
RECURSIVE collect_violations_uncapped(_, _, _)
collect_violations_uncapped(names, account, violations) ==
    IF names = <<>> THEN violations
    ELSE collect_violations_uncapped(
            Tail(names), account,
            IF is_too_similar(Head(names), account)
            THEN Append(violations, Head(names))
            ELSE violations)

\* The loop collecting the violations over the persisted names in the order
\* given, stopping at VIOLATIONS_CAP.
RECURSIVE collect_violations(_, _, _)
collect_violations(names, account, violations) ==
    IF names = <<>> THEN violations
    ELSE The({IF Len(found) = VIOLATIONS_CAP THEN found
              ELSE collect_violations(Tail(names), account, found)
              : found \in {IF is_too_similar(Head(names), account)
                           THEN Append(violations, Head(names))
                           ELSE violations}})

\* A faulty verify_display_name that ignores the call (Ok(None)) where
\* the field is missing or has another challenge.
\* C21_VerifyDisplayNameOutcome fails with it.
verify_display_name_ignoring(net_address, display_name, name_order) ==
    LET found == lookup_field_status(net_address, Field("display_name", display_name))
    IN  IF ~found.some
        THEN Ok(None)
        ELSE IF found.val.challenge.type # "display_name_check"
        THEN Ok(None)
        ELSE IF found.val.challenge.status = Valid
        THEN Ok(None)
        ELSE LET all_display_names ==
                    [i \in 1 .. Len(name_order) |-> display_names[name_order[i]]]
                 violations == collect_violations(all_display_names, display_name, <<>>)
                 challenge ==
                    IF violations = <<>>
                    THEN CheckDisplayName(Valid, None)
                    ELSE CheckDisplayName(Invalid, Some(violations))
             IN  Ok(Some([net_address |-> net_address,
                          field_status |-> [found.val EXCEPT !.challenge = challenge]]))

\* IdentityManager::verify_display_name, for one iteration order of the
\* persisted display names (name_order lists the keys of display_names).
verify_display_name(net_address, display_name, name_order) ==
    LET found == lookup_field_status(net_address, Field("display_name", display_name))
    IN  IF ~found.some
        THEN Err("no identity found based on display name")
        ELSE IF found.val.challenge.type # "display_name_check"
        THEN Err("expected to verify display name, found different challenge type")
        ELSE IF found.val.challenge.status = Valid
        THEN Ok(None)
        ELSE LET all_display_names ==
                    [i \in 1 .. Len(name_order) |-> display_names[name_order[i]]]
                 violations == collect_violations(all_display_names, display_name, <<>>)
                 challenge ==
                    IF violations = <<>>
                    THEN CheckDisplayName(Valid, None)
                    ELSE CheckDisplayName(Invalid, Some(violations))
             IN  Ok(Some(Outcome(net_address,
                                 [found.val EXCEPT !.challenge = challenge])))

\* A faulty persist_display_name without the test on the reverse index.
\* C22_PersistNeedsReverseIndex fails with it.
persist_display_name_unchecked(persisted) ==
    [result |-> Ok(Unit),
     display_names |-> Put(display_names, persisted.net_address,
                           persisted.display_name)]

\* IdentityManager::persist_display_name: what it returns and display_names after.
persist_display_name(persisted) ==
    LET holders == lookup_addresses_of(Field("display_name", persisted.display_name))
    IN  IF holders.some /\ persisted.net_address \in holders.val
        THEN [result |-> Ok(Unit),
              display_names |-> Put(display_names, persisted.net_address,
                                    persisted.display_name)]
        ELSE [result |-> Err("attempted to persist display name of an identity which does not exist"),
              display_names |-> display_names]

\* The accounts whose display names the handler is asked to match: one
\* call of handle_display_name_matching can be in flight for each.
NetAccounts == {"alice", "bob"}

\* DisplayNameHandler::new with its database: no message on its channel, no
\* call in flight, and no status, violation or notification written yet.
\* (The registry of display names of the database is display_names.)
EngineIdle ==
    [messages |-> <<>>,
     calls |-> [net_account \in NetAccounts |->
                   [pc |-> "recv", account |-> "", violations |-> <<>>,
                    result |-> None]],
     account_status |-> <<>>,
     challenge_status |-> <<>>,
     display_name_violations |-> <<>>,
     notified |-> {}]

\* local: comms.recv().await gave AccountToVerify { net_account, account };
\* handle_display_name_matching starts and awaits select_display_names.
recv(net_account) ==
    [engine EXCEPT
        !.messages = Restrict(@, DOMAIN @ \ {net_account}),
        !.calls[net_account] =
            [pc |-> "select_display_names",
             account |-> engine.messages[net_account],
             violations |-> <<>>, result |-> None]]

\* A database call returned an error: `?` returns it from
\* handle_display_name_matching and from local, start logs it and goes on
\* with the next message; what was written so far stays.
failed(net_account) ==
    [engine EXCEPT !.calls[net_account].pc = "recv",
                   !.calls[net_account].result = Some(Err("database error"))]

\* self.db.select_display_names().await? and the loop over what it gave.
select_display_names(net_account, ok) ==
    IF ~ok THEN failed(net_account)
    ELSE The({[engine EXCEPT
                  !.calls[net_account].violations = violations,
                  !.calls[net_account].pc =
                      IF violations = <<>> THEN "insert_display_name"
                      ELSE "insert_display_name_violations"]
              : violations \in {collect_violations(
                                   display_names,
                                   engine.calls[net_account].account, <<>>)}})

\* self.db.insert_display_name(&account).await?: the handler and the
\* registry after.
insert_display_name(net_account, ok) ==
    IF ~ok
    THEN [engine |-> failed(net_account), display_names |-> display_names]
    ELSE [engine |-> [engine EXCEPT !.calls[net_account].pc = "set_account_status"],
          display_names |-> Append(display_names, engine.calls[net_account].account)]

\* self.db.insert_display_name_violations(&net_account, &violations).await?
insert_display_name_violations(net_account, ok) ==
    IF ~ok THEN failed(net_account)
    ELSE [engine EXCEPT
            !.display_name_violations =
                Put(@, net_account, engine.calls[net_account].violations),
            !.calls[net_account].pc = "set_account_status"]

\* self.db.set_account_status(&net_account, &DisplayName, ..).await?: Valid
\* with no violation, Invalid otherwise.
set_account_status(net_account, ok) ==
    IF ~ok THEN failed(net_account)
    ELSE [engine EXCEPT
            !.account_status =
                Put(@, net_account,
                    IF engine.calls[net_account].violations = <<>>
                    THEN Valid ELSE Invalid),
            !.calls[net_account].pc = "set_challenge_status"]

\* self.db.set_challenge_status(&net_account, &DisplayName, ..).await?:
\* Accepted with no violation, Rejected otherwise; then
\* self.comms.notify_status_change(net_account) and Ok(()).
set_challenge_status(net_account, ok) ==
    IF ~ok THEN failed(net_account)
    ELSE [engine EXCEPT
            !.challenge_status =
                Put(@, net_account,
                    IF engine.calls[net_account].violations = <<>>
                    THEN "accepted" ELSE "rejected"),
            !.notified = @ \cup {net_account},
            !.calls[net_account].pc = "recv",
            !.calls[net_account].result = Some(Ok(Unit))]

\* IdentityManager::is_fully_verified
is_fully_verified(net_address) ==
    IF net_address \in DOMAIN identities
    THEN Ok(\A ty \in DOMAIN identities[net_address] :
                is_valid(identities[net_address][ty]))
    ELSE Err("failed to check the full verification status of unknown target")

\* RemarkFound::as_str: the text of the remark.
RemarkFound_as_str(remark) == remark.text

\* A faulty matches_remark that accepts a remark containing the challenge.
\* C30_RemarkMatchesByEquality fails with it.
matches_remark_containing(challenge, remark) ==
    StrContains(RemarkFound_as_str(remark), challenge)

\* OnChainChallenge::matches_remark
matches_remark(challenge, remark) ==
    challenge = RemarkFound_as_str(remark)

\* What a call returns when an unwrap() in it fails.
Panic == [panic |-> TRUE]

\* IdentityManager::get_on_chain_challenge
get_on_chain_challenge(net_address) ==
    IF net_address \in DOMAIN on_chain_challenges
    THEN Some(on_chain_challenges[net_address])
    ELSE None

\* IdentityManager::lookup_full_state; the on-chain challenge is unwrapped.
lookup_full_state(net_address) ==
    IF net_address \notin DOMAIN identities THEN None
    ELSE IF net_address \notin DOMAIN on_chain_challenges THEN Panic
    ELSE Some([net_address |-> net_address,
               on_chain_challenge |-> on_chain_challenges[net_address],
               fields |-> identities[net_address]])

\* IdentityManager::export_state (the states as a set); the on-chain
\* challenge of every identity is unwrapped.
export_state ==
    IF \E a \in DOMAIN identities : a \notin DOMAIN on_chain_challenges
    THEN Panic
    ELSE [states |-> {[net_address |-> a,
                       on_chain_challenge |-> on_chain_challenges[a],
                       fields |-> identities[a]] : a \in DOMAIN identities}]

(********************************* inputs ***********************************)

Email(addr) == Field("email", addr)

Twitter(addr) == Field("twitter", addr)

LegalName(addr) == Field("legal_name", addr)

DisplayName(name) == Field("display_name", name)

NoField == Field("none", "")

\* What one judgement request draws from the random source: the two
\* ExpectedMessage::gen() tokens and the OnChainChallenge::gen() tag.
Draw1 ==
    [expected_message |-> "a1", expected_message_back |-> "b2",
     on_chain_challenge |-> "w3f_registrar:01"]

Draw2 ==
    [expected_message |-> "c3", expected_message_back |-> "d4",
     on_chain_challenge |-> "w3f_registrar:02"]

Tokens == {"a1", "b2", "c3", "d4"}

\* The sets of fields a judgement request of alice may claim.
ClaimSets ==
    {{},
     {Email("e1"), DisplayName("Alice")},
     {Email("e2"), Twitter("w1"), LegalName("l1")}}

\* The fields bob claims: alice's first e-mail address and her display name.
BobClaims == {Email("e1"), DisplayName("Alice")}

\* The IdentityState a judgement request for the claimed fields produces.
IdentityState(net_address, claims, draw) ==
    [net_address |-> net_address,
     on_chain_challenge |-> draw.on_chain_challenge,
     fields |-> [ty \in {as_type(f) : f \in claims} |->
                    LET f == CHOOSE g \in claims : as_type(g) = ty
                    IN  FieldStatusFrom(f, RegistrarIdentityField(ty),
                                        draw.expected_message,
                                        draw.expected_message_back)]]

\* The IdentityInserted events: alice's requests (each claim set, and her
\* first one again with fresh draws), bob's request and his empty one.
IdentityInputs ==
    {IdentityState("alice", claims, Draw1) : claims \in ClaimSets}
    \cup {IdentityState("alice", {Email("e1"), DisplayName("Alice")}, Draw2),
          IdentityState("bob", BobClaims, Draw2),
          IdentityState("bob", {}, Draw2)}

\* The RemarkFound events of the chain watcher: the text is a challenge of
\* one of the draws, a proper substring of one, one followed by another
\* character, or empty.
Remarks ==
    {[net_address |-> a, text |-> text] :
        a \in NetworkAddress,
        text \in {"w3f_registrar:01", "w3f_registrar:02", "w3f_registrar:0",
                  "w3f_registrar:01!", ""}}

\* The messages the adapters deliver.
Messages ==
    {<<"a1">>, <<"b2">>, <<"c3">>, <<"d4">>, <<"zz">>, <<"zz", "a1">>,
     <<"">>, <<"a">>}

ClaimedFields == (UNION ClaimSets) \cup BobClaims

\* Pre-computed statuses a replay layer may hand to update_field: every
\* validity of the challenges the factory makes for the first draw, statuses
\* of another draw or another address, and statuses whose challenge or field
\* is not the one the factory makes for the field.
StatusInputs ==
    {[field |-> Email("e1"), is_permitted |-> TRUE,
      challenge |-> BackAndForth("a1", "b2", Email("e1"),
                                 RegistrarIdentityField("email"), v1, v2)] :
        v1 \in Validity, v2 \in Validity}
    \cup
    {[field |-> Twitter("w1"), is_permitted |-> TRUE,
      challenge |-> ExpectMessage("a1", Twitter("w1"),
                                  RegistrarIdentityField("twitter"), v)] :
        v \in Validity}
    \cup
    {[field |-> DisplayName("Alice"), is_permitted |-> TRUE, challenge |-> c] :
        c \in {CheckDisplayName(Unconfirmed, None), CheckDisplayName(Valid, None),
               CheckDisplayName(Invalid, Some(<<"Alicia">>))}}
    \cup
    {FieldStatusFrom(LegalName("l1"), RegistrarIdentityField("legal_name"), "a1", "b2"),
     [field |-> LegalName("l1"), is_permitted |-> TRUE,
      challenge |-> ExpectMessage("a1", LegalName("l1"),
                                  RegistrarIdentityField("legal_name"), Valid)],
     [field |-> DisplayName("Alice"), is_permitted |-> TRUE,
      challenge |-> ExpectMessage("a1", DisplayName("Alice"),
                                  RegistrarIdentityField("display_name"), Valid)],
     [field |-> Twitter("w1"), is_permitted |-> TRUE,
      challenge |-> BackAndForth("a1", "b2", Twitter("w1"),
                                 RegistrarIdentityField("twitter"), Valid, Valid)],
     [field |-> Email("e2"), is_permitted |-> TRUE,
      challenge |-> BackAndForth("c3", "d4", Email("e2"),
                                 RegistrarIdentityField("email"), Valid, Valid)],
     [field |-> Email("e2"), is_permitted |-> TRUE,
      challenge |-> BackAndForth("a1", "b2", Email("e1"),
                                 RegistrarIdentityField("email"), Valid, Unconfirmed)]}

\* FieldStatusVerified events of the replay layer.
VerifiedInputs ==
    {[net_address |-> a, field_status |-> s] : a \in NetworkAddress, s \in StatusInputs}

(***************************** e-mail adapter ******************************)

\* ReceivedMessageContext: one body of the e-mail with the given id.
ReceivedMessageContext(id, sender, body) ==
    [id |-> id, sender |-> sender, body |-> body]

\* The mailbox: an e-mail of two parts and a later one from an address with
\* a pending challenge, and one from an address without.
Mailbox ==
    {ReceivedMessageContext(1, "e1", "a1"), ReceivedMessageContext(1, "e1", "zz"),
     ReceivedMessageContext(2, "e9", "zz"), ReceivedMessageContext(3, "e1", "b2")}

EmailIds == {m.id : m \in Mailbox}

\* What EmailTransport::request_messages may return: every part of the
\* e-mails it fetched.
Fetches == {{m \in Mailbox : m.id \in ids} : ids \in SUBSET EmailIds}

\* Database2::select_challenge_data for the e-mail account type: the
\* challenges pending for the sender, none for an unknown sender.
select_challenge_data(sender) ==
    IF sender = "e1" THEN {"a1"} ELSE {}

\* sort() and dedup() of the ids of the messages.
RECURSIVE sorted(_)
sorted(ids) ==
    IF ids = {} THEN <<>>
    ELSE LET least == CHOOSE id \in ids : \A other \in ids : id <= other
         IN  <<least>> \o sorted(ids \ {least})

\* Database2::find_untracked_email_ids: the ids without a processed marker.
find_untracked_email_ids(email_ids) ==
    SelectSeq(email_ids, LAMBDA id : id \notin email.tracked)

\* Database2::track_email_id: the processed markers after.
track_email_id(email_id) == email.tracked \cup {email_id}

\* The handler before its first poll.
EmailIdle ==
    [pc |-> "idle", messages |-> {}, unknown |-> <<>>, challenge_data |-> {},
     done |-> <<>>, tracked |-> {}, verified |-> [id \in EmailIds |-> 0],
     polls |-> 0, result |-> Ok(Unit)]

\* handle_incoming_messages returns: with the error of a call that failed
\* (the ? operator), or Ok(()).
returns(e, result) ==
    [e EXCEPT !.pc = "idle", !.messages = {}, !.unknown = <<>>,
              !.challenge_data = {}, !.done = <<>>, !.result = result]

\* The head of the for loop over unknown_email_ids.
next_email_id(e) ==
    IF e.unknown = <<>> THEN returns(e, Ok(Unit))
    ELSE [e EXCEPT !.pc = "select_challenge_data", !.challenge_data = {},
                   !.done = <<>>]

\* The e-mail id the loop is at, and the sender of its first message.
email_id == Head(email.unknown)

sender == (CHOOSE m \in email.messages : m.id = email_id).sender

\* The handler after transport.request_messages() returned.
request_messages(messages, ok) ==
    LET polled == [email EXCEPT !.polls = @ + 1]
    IN  IF ~ok THEN returns(polled, Err("request_messages"))
        ELSE IF messages = {} THEN returns(polled, Ok(Unit))
        ELSE [polled EXCEPT !.pc = "find_untracked_email_ids",
                            !.messages = messages]

\* ... after db.find_untracked_email_ids() returned.
find_untracked(ok) ==
    IF ~ok THEN returns(email, Err("find_untracked_email_ids"))
    ELSE next_email_id([email EXCEPT !.unknown =
            find_untracked_email_ids(sorted({m.id : m \in email.messages}))])

\* ... after db.select_challenge_data() returned.
select_challenge(ok) ==
    IF ~ok THEN returns(email, Err("select_challenge_data"))
    ELSE [email EXCEPT !.challenge_data = select_challenge_data(sender),
                       !.done = Append(@, "select_challenge_data"),
                       !.pc = IF select_challenge_data(sender) = {}
                              THEN "track_email_id" ELSE "verify"]

\* ... after verifier.verify() ran on every message of the e-mail.
verify ==
    [email EXCEPT !.verified[email_id] = @ + 1,
                  !.done = Append(@, "verify"),
                  !.pc = "verification_handler"]

\* ... after verification_handler() returned.
verification_handler(ok) ==
    IF ~ok THEN returns(email, Err("verification_handler"))
    ELSE [email EXCEPT !.done = Append(@, "verification_handler"),
                       !.pc = "send_message"]

\* A faulty handler that goes on to mark the e-mail when the response
\* could not be sent.  C37_TrackedOnlyWhenProcessed fails with it.
send_message_unchecked(ok) ==
    IF ~ok THEN [email EXCEPT !.pc = "track_email_id"]
    ELSE [email EXCEPT !.done = Append(@, "send_message"),
                       !.pc = "track_email_id"]

\* ... after transport.send_message() returned.
send_message(ok) ==
    IF ~ok THEN returns(email, Err("send_message"))
    ELSE [email EXCEPT !.done = Append(@, "send_message"),
                       !.pc = "track_email_id"]

\* ... after db.track_email_id() returned.
track(ok) ==
    IF ~ok THEN returns(email, Err("track_email_id"))
    ELSE next_email_id([email EXCEPT !.tracked = track_email_id(email_id),
                                     !.unknown = Tail(@)])

(***************************** Matrix adapter ******************************)

REJOIN_DELAY == 3

REJOIN_MAX_ATTEMPTS == 5

\* The rooms that invite the client.
Rooms == {"r1", "r2"}

\* No room has invited the client yet.
MatrixIdle ==
    [room \in Rooms |->
        [pc |-> "none", delay |-> 0, rejoin_attempts |-> 0, joins |-> 0,
         slept |-> <<>>]]

\* on_stripped_state_member for a room in the state Invited, up to the
\* first join_room_by_id.
on_stripped_state_member(room) ==
    [matrix[room] EXCEPT !.pc = "join_room_by_id", !.delay = REJOIN_DELAY,
                         !.rejoin_attempts = 0]

\* The loop after join_room_by_id returned: its body is entered on Err.
join_room_by_id(room, ok) ==
    [matrix[room] EXCEPT !.joins = @ + 1,
                         !.pc = IF ok THEN "joined" ELSE "sleep"]

\* A faulty loop body whose test lets one more attempt through.
\* C38_JoinLoopTerminates fails with it.
retry_once_more(room) ==
    LET r == matrix[room]
        rejoin_attempts == r.rejoin_attempts + 1
    IN  [r EXCEPT !.slept = Append(@, r.delay),
                  !.delay = r.delay * 2,
                  !.rejoin_attempts = rejoin_attempts,
                  !.pc = IF rejoin_attempts > REJOIN_MAX_ATTEMPTS
                         THEN "gave_up" ELSE "join_room_by_id"]

\* The body of the loop: sleep(delay), delay *= 2, rejoin_attempts += 1 and
\* the return once REJOIN_MAX_ATTEMPTS is reached (delay is a u64 and is
\* doubled at most REJOIN_MAX_ATTEMPTS times from REJOIN_DELAY: no overflow).
retry(room) ==
    LET r == matrix[room]
        rejoin_attempts == r.rejoin_attempts + 1
    IN  [r EXCEPT !.slept = Append(@, r.delay),
                  !.delay = r.delay * 2,
                  !.rejoin_attempts = rejoin_attempts,
                  !.pc = IF rejoin_attempts = REJOIN_MAX_ATTEMPTS
                         THEN "gave_up" ELSE "join_room_by_id"]

(************************ channel-driven manager ***************************)

\* AccountState::new
AccountState(account, account_ty, challenge) ==
    [account |-> account, account_ty |-> account_ty,
     account_validity |-> "unknown", challenge |-> challenge,
     confirmed |-> FALSE]

\* OnChainIdentity, as the chain watcher builds it for a judgement request.
OnChainIdentity(address, pub_key, display_name, matrix_state) ==
    [network_address |-> [address |-> address, algo |-> "schnorr", pub_key |-> pub_key],
     display_name |-> display_name, legal_name |-> None, email |-> None,
     web |-> None, twitter |-> None, matrix |-> matrix_state]

\* The registration requests: alice with a Matrix account, the same address
\* again with another display name and challenge, and bob without one, whose
\* display name reads like the JSON null.
OnChainIdentities ==
    {OnChainIdentity("alice", "pk1", None,
                     Some(AccountState("@alice:matrix.org", "matrix", "a1"))),
     OnChainIdentity("alice", "pk1", Some("Alice"),
                     Some(AccountState("@alice:matrix.org", "matrix", "c3"))),
     OnChainIdentity("bob", "pk2", Some("null"), None)}

\* JSON values, as serde_json writes and reads them: null, a string or
\* boolean, and an object with its members in order.
JsonNull == <<"null">>

JsonString(s) == <<"string", s>>

JsonObject(members) == <<"object", members>>

\* serde_json of an Option<String>: null, or the string.
to_json_string(value) ==
    IF value.some THEN JsonString(value.val) ELSE JsonNull

\* serde_json of an Option of a struct with derived Serialize.
to_json_option(state) ==
    IF state.some
    THEN JsonObject(<<<<"account", JsonString(state.val.account)>>,
                      <<"account_ty", JsonString(state.val.account_ty)>>,
                      <<"account_validity", JsonString(state.val.account_validity)>>,
                      <<"challenge", JsonString(state.val.challenge)>>,
                      <<"confirmed", <<"bool", state.val.confirmed>>>>>>)
    ELSE JsonNull

\* OnChainIdentity::to_json: the members in the order of declaration.
to_json(ident) ==
    JsonObject(
      <<<<"network_address",
          JsonObject(<<<<"address", JsonString(ident.network_address.address)>>,
                       <<"algo", JsonString(ident.network_address.algo)>>,
                       <<"pub_key", JsonString(ident.network_address.pub_key)>>>>)>>,
        <<"display_name", to_json_string(ident.display_name)>>,
        <<"legal_name", to_json_string(ident.legal_name)>>,
        <<"email", to_json_option(ident.email)>>,
        <<"web", to_json_option(ident.web)>>,
        <<"twitter", to_json_option(ident.twitter)>>,
        <<"matrix", to_json_option(ident.matrix)>>>>)

\* The value of the member of a JSON object.
member(object, key) ==
    (CHOOSE kv \in {object[2][i] : i \in DOMAIN object[2]} : kv[1] = key)[2]

\* serde_json reading an Option<String>: None for null, the string otherwise.
from_json_string(value) ==
    IF value[1] = "null" THEN None ELSE Some(value[2])

from_json_option(value) ==
    IF value[1] = "null" THEN None
    ELSE Some([account |-> member(value, "account")[2],
               account_ty |-> member(value, "account_ty")[2],
               account_validity |-> member(value, "account_validity")[2],
               challenge |-> member(value, "challenge")[2],
               confirmed |-> member(value, "confirmed")[2]])

\* OnChainIdentity::from_json
from_json(val) ==
    [network_address |->
        [address |-> member(member(val, "network_address"), "address")[2],
         algo |-> member(member(val, "network_address"), "algo")[2],
         pub_key |-> member(member(val, "network_address"), "pub_key")[2]],
     display_name |-> from_json_string(member(val, "display_name")),
     legal_name |-> from_json_string(member(val, "legal_name")),
     email |-> from_json_option(member(val, "email")),
     web |-> from_json_option(member(val, "web")),
     twitter |-> from_json_option(member(val, "twitter")),
     matrix |-> from_json_option(member(val, "matrix"))]

\* The database behind the manager: its scopes, as on disk.
EmptyDatabase == [pending_identities |-> <<>>, matrix_rooms |-> <<>>]

\* IdentityManager::new on the database: the pending identities are read
\* back into memory, keyed by their address.
IdentityManager_new(db) ==
    [pc |-> "try_recv",
     idents |-> [a \in {from_json(db.pending_identities[k]).network_address.address :
                          k \in DOMAIN db.pending_identities} |->
                    from_json(db.pending_identities[
                        CHOOSE k \in DOMAIN db.pending_identities :
                            from_json(db.pending_identities[k]).network_address.address = a])],
     db |-> db,
     rehydrated |-> DOMAIN db.pending_identities,
     ident |-> None,
     informed |-> {}]

ManagerNew == IdentityManager_new(EmptyDatabase)

\* The process is gone: what is left is the database (and what was sent);
\* idents and ident stay as the memory the process had, and the request it
\* was handling, when it ended.
stopped(m) == [m EXCEPT !.pc = "stopped"]

\* A faulty handler that goes on when the write to the database failed.
\* C39_MemoryIsPersisted fails with it.
put_pending_identity_unchecked(ok) ==
    IF ~ok THEN [manager EXCEPT !.pc = "insert"]
    ELSE [manager EXCEPT
            !.db.pending_identities =
                Put(@, manager.ident.val.network_address.address,
                    to_json(manager.ident.val)),
            !.pc = "insert"]

\* handle_register_request, "Save the pending on-chain identity to disk":
\* db_idents.put(address, ident.to_json()?)?
put_pending_identity(ok) ==
    IF ~ok THEN stopped(manager)
    ELSE [manager EXCEPT
            !.db.pending_identities =
                Put(@, manager.ident.val.network_address.address,
                    to_json(manager.ident.val)),
            !.pc = "insert"]

\* handle_register_request, "Save the pending on-chain identity to memory".
insert_ident ==
    [manager EXCEPT
        !.idents = Put(@, manager.ident.val.network_address.address, manager.ident.val),
        !.pc = "inform"]

\* handle_register_request, "Only matrix supported for now": the adapter of
\* the account is informed, with the room stored for the public key.
inform ==
    LET ident == manager.ident.val
    IN  IF ident.matrix.some
        THEN [manager EXCEPT
                !.informed = @ \cup
                    {[network_address |-> ident.network_address,
                      account |-> ident.matrix.val.account,
                      challenge |-> ident.matrix.val.challenge,
                      room_id |-> IF ident.network_address.pub_key
                                        \in DOMAIN manager.db.matrix_rooms
                                  THEN Some(manager.db.matrix_rooms[
                                                ident.network_address.pub_key])
                                  ELSE None]},
                !.ident = None, !.pc = "try_recv"]
        ELSE [manager EXCEPT !.ident = None, !.pc = "try_recv"]

(********************************* actions **********************************)

\* The record of a call: the method, its target, what it returned, and
\* whether it changed the manager (or the event store).
Call(op, net_address, field, result, changed) ==
    [op |-> op, net_address |-> net_address, field |-> field, result |-> result,
     changed |-> changed]

Init ==
    /\ identities = <<>>
    /\ lookup_addresses = <<>>
    /\ display_names = <<>>
    /\ on_chain_challenges = <<>>
    /\ outcomes = {}
    /\ last = Call("new", "", NoField, Unit, TRUE)
    /\ nops = 0
    /\ limit = Limit
    /\ email = EmailIdle
    /\ matrix = MatrixIdle
    /\ manager = ManagerNew
    /\ engine = EngineIdle

\* A call that changes nothing leaves the manager it found, so the calls
\* that may follow it are those that may follow the state before it: a run is
\* followed up to its first such call.  Calls that change the maps are made
\* while fewer than MaxOps of them have been made.
Counted(changed) ==
    /\ last.changed
    /\ changed => nops < MaxOps
    /\ nops' = IF changed THEN nops + 1 ELSE nops

InsertIdentity(identity) ==
    LET r == insert_identity(identity)
        changed == <<r.identities, r.lookup_addresses, r.on_chain_challenges>>
                   # <<identities, lookup_addresses, on_chain_challenges>>
    IN  /\ Counted(changed)
        /\ identities' = r.identities
        /\ lookup_addresses' = r.lookup_addresses
        /\ on_chain_challenges' = r.on_chain_challenges
        /\ last' = Call("insert_identity", identity.net_address, NoField, r.result, changed)
        /\ UNCHANGED <<display_names, outcomes, limit>>
        /\ UNCHANGED adapter_vars

UpdateField(verified) ==
    LET r == update_field(verified)
        changed == r.identities # identities
    IN  /\ Counted(changed)
        /\ identities' = r.identities
        /\ last' = Call("update_field", verified.net_address,
                        verified.field_status.field, r.result, changed)
        /\ UNCHANGED <<lookup_addresses, display_names, on_chain_challenges, outcomes,
                       limit>>
        /\ UNCHANGED adapter_vars

\* The outcomes the event store holds after the manager returned result.
Stored(result) ==
    IF result.some THEN outcomes \cup {result.val} ELSE outcomes

VerifyMessage(field, provided_message, keep) ==
    /\ last.changed
    /\ \E order \in Orders(IF field \in DOMAIN lookup_addresses
                           THEN lookup_addresses[field] ELSE {}) :
          LET result == verify_message(field, provided_message, order)
              stored == IF keep THEN Stored(result) ELSE outcomes
          IN  /\ Cardinality(stored) <= MaxPending
              /\ outcomes' = stored
              /\ last' = Call("verify_message", "", field, result, stored # outcomes)
    /\ UNCHANGED <<identities, lookup_addresses, display_names, on_chain_challenges,
                   nops, limit>>
    /\ UNCHANGED adapter_vars

VerifyDisplayName(net_address, display_name, keep) ==
    /\ last.changed
    /\ \E name_order \in Orders(DOMAIN display_names) :
          LET result == verify_display_name(net_address, display_name, name_order)
              stored == IF keep /\ result.ok THEN Stored(result.val) ELSE outcomes
          IN  /\ Cardinality(stored) <= MaxPending
              /\ outcomes' = stored
              /\ last' = Call("verify_display_name", net_address,
                              DisplayName(display_name), result, stored # outcomes)
    /\ UNCHANGED <<identities, lookup_addresses, display_names, on_chain_challenges,
                   nops, limit>>
    /\ UNCHANGED adapter_vars

PersistDisplayName(persisted) ==
    LET r == persist_display_name(persisted)
        changed == r.display_names # display_names
    IN  /\ Counted(changed)
        /\ display_names' = r.display_names
        /\ last' = Call("persist_display_name", persisted.net_address,
                        DisplayName(persisted.display_name), r.result, changed)
        /\ UNCHANGED <<identities, lookup_addresses, on_chain_challenges, outcomes,
                       limit>>
        /\ UNCHANGED adapter_vars

PersistedInputs ==
    {[net_address |-> a, display_name |-> n] : a \in NetworkAddress, n \in DisplayNames}

\* Any call, with any input: update_field is handed arbitrary statuses.
Next ==
    \/ \E identity \in IdentityInputs : InsertIdentity(identity)
    \/ \E verified \in VerifiedInputs : UpdateField(verified)
    \/ \E field \in ClaimedFields, m \in Messages : VerifyMessage(field, m, FALSE)
    \/ \E a \in NetworkAddress, n \in DisplayNames : VerifyDisplayName(a, n, FALSE)
    \/ \E persisted \in PersistedInputs : PersistDisplayName(persisted)

Spec == Init /\ [][Next]_vars

\* The replay flow: update_field is handed only outcomes that verify_message
\* or verify_display_name produced (any of them, at any later time, any
\* number of times).
\* The requests of the replay flow: those that claim a field, drawn once,
\* and one of alice that claims a Twitter account and a legal name only.
FlowIdentityInputs ==
    {IdentityState("alice", claims, Draw1) : claims \in ClaimSets \ {{}}}
    \cup {IdentityState("bob", BobClaims, Draw2),
          IdentityState("alice", {Twitter("w1"), LegalName("l1")}, Draw1)}

NextFlow ==
    \/ \E identity \in FlowIdentityInputs : InsertIdentity(identity)
    \/ \E verified \in outcomes : UpdateField(verified)
    \/ \E field \in ClaimedFields, m \in Messages : VerifyMessage(field, m, TRUE)
    \/ \E a \in NetworkAddress, n \in DisplayNames : VerifyDisplayName(a, n, TRUE)
    \/ \E persisted \in PersistedInputs : PersistDisplayName(persisted)

FlowSpec == Init /\ [][NextFlow]_vars

\* The caller's protocol for display names: persist_display_name is invoked
\* for an identity only once the valid outcome of its check for that name
\* has been committed.
Committed(persisted) ==
    LET found == lookup_field_status(persisted.net_address,
                                     DisplayName(persisted.display_name))
    IN  /\ found.some
        /\ found.val.field = DisplayName(persisted.display_name)
        /\ found.val.challenge.type = "display_name_check"
        /\ found.val.challenge.status = Valid

\* The display-name flows of the identities, interleaved in any way: for
\* each identity verify_display_name, update_field on its outcome, then
\* persist_display_name.
NextNames ==
    \/ \E identity \in FlowIdentityInputs : InsertIdentity(identity)
    \/ \E verified \in outcomes : UpdateField(verified)
    \/ \E a \in NetworkAddress, n \in DisplayNames : VerifyDisplayName(a, n, TRUE)
    \/ \E persisted \in PersistedInputs :
          Committed(persisted) /\ PersistDisplayName(persisted)

\* The manager after the judgement requests of alice and bob, who claim the
\* same display name, were inserted.
Requests ==
    {IdentityState("alice", BobClaims, Draw1), IdentityState("bob", BobClaims, Draw2)}

NamesInit ==
    /\ identities = [a \in NetworkAddress |->
                        (CHOOSE identity \in Requests : identity.net_address = a).fields]
    /\ lookup_addresses = [f \in BobClaims |-> NetworkAddress]
    /\ display_names = <<>>
    /\ on_chain_challenges =
          [a \in NetworkAddress |->
              (CHOOSE identity \in Requests : identity.net_address = a).on_chain_challenge]
    /\ outcomes = {}
    /\ last = Call("insert_identity", "bob", NoField, Unit, TRUE)
    /\ nops = 0
    /\ limit = Limit
    /\ email = EmailIdle
    /\ matrix = MatrixIdle
    /\ manager = ManagerNew
    /\ engine = EngineIdle

NamesSpec == NamesInit /\ [][NextNames]_vars

\* The e-mail adapter on its own: the responder task polls the mailbox, one
\* call of handle_incoming_messages after the other; every call it awaits
\* may fail.
EmailInit ==
    /\ identities = <<>>
    /\ lookup_addresses = <<>>
    /\ display_names = <<>>
    /\ on_chain_challenges = <<>>
    /\ outcomes = {}
    /\ last = Call("new", "", NoField, Unit, TRUE)
    /\ nops = 0
    /\ limit = Limit
    /\ email = EmailIdle
    /\ matrix = MatrixIdle
    /\ manager = ManagerNew
    /\ engine = EngineIdle

RequestMessages(messages, ok) ==
    /\ email.pc = "idle"
    /\ email.polls < MaxPolls
    /\ email' = request_messages(messages, ok)
    /\ UNCHANGED <<core_vars, matrix, manager, engine>>

FindUntracked(ok) ==
    /\ email.pc = "find_untracked_email_ids"
    /\ email' = find_untracked(ok)
    /\ UNCHANGED <<core_vars, matrix, manager, engine>>

SelectChallengeData(ok) ==
    /\ email.pc = "select_challenge_data"
    /\ email' = select_challenge(ok)
    /\ UNCHANGED <<core_vars, matrix, manager, engine>>

Verify ==
    /\ email.pc = "verify"
    /\ email' = verify
    /\ UNCHANGED <<core_vars, matrix, manager, engine>>

VerificationHandler(ok) ==
    /\ email.pc = "verification_handler"
    /\ email' = verification_handler(ok)
    /\ UNCHANGED <<core_vars, matrix, manager, engine>>

SendMessage(ok) ==
    /\ email.pc = "send_message"
    /\ email' = send_message(ok)
    /\ UNCHANGED <<core_vars, matrix, manager, engine>>

TrackEmailId(ok) ==
    /\ email.pc = "track_email_id"
    /\ email' = track(ok)
    /\ UNCHANGED <<core_vars, matrix, manager, engine>>

EmailNext ==
    \/ \E messages \in Fetches, ok \in BOOLEAN : RequestMessages(messages, ok)
    \/ \E ok \in BOOLEAN : FindUntracked(ok)
    \/ \E ok \in BOOLEAN : SelectChallengeData(ok)
    \/ Verify
    \/ \E ok \in BOOLEAN : VerificationHandler(ok)
    \/ \E ok \in BOOLEAN : SendMessage(ok)
    \/ \E ok \in BOOLEAN : TrackEmailId(ok)

EmailSpec == EmailInit /\ [][EmailNext]_vars

\* The channel-driven manager on its own: its loop takes the registration
\* requests off the channel one by one; a write to the database may fail,
\* which ends the loop, and the process may be killed between any two steps;
\* a new process is then started on the database left behind.
ManagerInit ==
    /\ identities = <<>>
    /\ lookup_addresses = <<>>
    /\ display_names = <<>>
    /\ on_chain_challenges = <<>>
    /\ outcomes = {}
    /\ last = Call("new", "", NoField, Unit, TRUE)
    /\ nops = 0
    /\ limit = Limit
    /\ email = EmailIdle
    /\ matrix = MatrixIdle
    /\ manager = ManagerNew
    /\ engine = EngineIdle

\* start: try_recv yields NewOnChainIdentity(ident).
NewOnChainIdentity(ident) ==
    /\ manager.pc = "try_recv"
    /\ manager' = [manager EXCEPT !.ident = Some(ident), !.pc = "put"]
    /\ UNCHANGED <<core_vars, email, matrix, engine>>

PutPendingIdentity(ok) ==
    /\ manager.pc = "put"
    /\ manager' = put_pending_identity(ok)
    /\ UNCHANGED <<core_vars, email, matrix, engine>>

InsertIdent ==
    /\ manager.pc = "insert"
    /\ manager' = insert_ident
    /\ UNCHANGED <<core_vars, email, matrix, engine>>

Inform ==
    /\ manager.pc = "inform"
    /\ manager' = inform
    /\ UNCHANGED <<core_vars, email, matrix, engine>>

\* start: try_recv yields TrackRoomId { address, room_id }.
TrackRoomId(address, room_id, ok) ==
    /\ manager.pc = "try_recv"
    /\ manager' = IF ok
                  THEN [manager EXCEPT !.db.matrix_rooms = Put(@, address, room_id)]
                  ELSE stopped(manager)
    /\ UNCHANGED <<core_vars, email, matrix, engine>>

\* The process is killed.
Crash ==
    /\ manager.pc # "stopped"
    /\ manager' = stopped(manager)
    /\ UNCHANGED <<core_vars, email, matrix, engine>>

\* A new process: IdentityManager::new on the database.
Restart ==
    /\ manager.pc = "stopped"
    /\ manager' = [IdentityManager_new(manager.db) EXCEPT !.informed = manager.informed]
    /\ UNCHANGED <<core_vars, email, matrix, engine>>

ManagerNext ==
    \/ \E ident \in OnChainIdentities : NewOnChainIdentity(ident)
    \/ \E ok \in BOOLEAN : PutPendingIdentity(ok)
    \/ InsertIdent
    \/ Inform
    \/ \E ok \in BOOLEAN : TrackRoomId("alice", "!room:matrix.org", ok)
    \/ Crash
    \/ Restart

ManagerSpec == ManagerInit /\ [][ManagerNext]_vars

\* The Matrix adapter on its own: every invite starts a join loop; the
\* runtime goes on with every loop that can take a step.
MatrixInit ==
    /\ identities = <<>>
    /\ lookup_addresses = <<>>
    /\ display_names = <<>>
    /\ on_chain_challenges = <<>>
    /\ outcomes = {}
    /\ last = Call("new", "", NoField, Unit, TRUE)
    /\ nops = 0
    /\ limit = Limit
    /\ email = EmailIdle
    /\ matrix = MatrixIdle
    /\ manager = ManagerNew
    /\ engine = EngineIdle

OnStrippedStateMember(room) ==
    /\ matrix[room].pc = "none"
    /\ matrix' = [matrix EXCEPT ![room] = on_stripped_state_member(room)]
    /\ UNCHANGED <<core_vars, email, manager, engine>>

JoinRoomById(room, ok) ==
    /\ matrix[room].pc = "join_room_by_id"
    /\ matrix' = [matrix EXCEPT ![room] = join_room_by_id(room, ok)]
    /\ UNCHANGED <<core_vars, email, manager, engine>>

Retry(room) ==
    /\ matrix[room].pc = "sleep"
    /\ matrix' = [matrix EXCEPT ![room] = retry(room)]
    /\ UNCHANGED <<core_vars, email, manager, engine>>

\* A step of the join loop of the room.
JoinLoop(room) ==
    \/ \E ok \in BOOLEAN : JoinRoomById(room, ok)
    \/ Retry(room)

MatrixNext ==
    \E room \in Rooms :
        \/ OnStrippedStateMember(room)
        \/ JoinLoop(room)

MatrixSpec ==
    /\ MatrixInit
    /\ [][MatrixNext]_vars
    /\ \A room \in Rooms : WF_vars(JoinLoop(room))

\* The similarity engine on its own: DisplayNameHandler with a configured
\* limit and the registry of display names of its database, handed display
\* names to match.  Here display_names is that registry, in the order the
\* database returns it.
SeqsUpTo(S, n) == UNION {[1 .. k -> S] : k \in 0 .. n}

\* Registries: up to MaxNames names out of two, and up to two names out of
\* all.
Registries == SeqsUpTo({"Alice", "Bob"}, MaxNames) \cup SeqsUpTo(EngineNames, 2)

\* Configured limits: the ends of [0, 1], the threshold of the service and a
\* stricter one, 0.9.
Limits == {<<0, 1>>, Limit, <<9, 10>>, <<1, 1>>}

\* What the handler starts from: a registry, a configured limit and the
\* AccountToVerify messages on its channel.  Either one message, with any
\* name, on any registry; or a message for each of two accounts, handled at
\* the same time, on a registry of at most one name.
EngineInputs ==
    {[registry |-> registry, limit |-> l,
      messages |-> [net_account \in {"alice"} |-> account]]
     : registry \in Registries, l \in Limits, account \in EngineNames}
    \cup
    {[registry |-> registry, limit |-> l,
      messages |-> [net_account \in NetAccounts |->
                       IF net_account = "alice" THEN pair[1] ELSE pair[2]]]
     : registry \in SeqsUpTo({"Alice", "Bob"}, 1), l \in Limits,
       pair \in {"Alice", "alice", "Bob"} \X {"Alice", "alice", "Bob"}}

EngineInit ==
    /\ identities = <<>>
    /\ lookup_addresses = <<>>
    /\ on_chain_challenges = <<>>
    /\ outcomes = {}
    /\ last = Call("new", "", NoField, Unit, TRUE)
    /\ nops = 0
    /\ \E input \in EngineInputs :
          /\ display_names = input.registry
          /\ limit = input.limit
          /\ engine = [EngineIdle EXCEPT !.messages = input.messages]
    /\ email = EmailIdle
    /\ matrix = MatrixIdle
    /\ manager = ManagerNew

\* local: the AccountToVerify message for net_account is received.
Recv(net_account) ==
    /\ engine.calls[net_account].pc = "recv"
    /\ net_account \in DOMAIN engine.messages
    /\ engine' = recv(net_account)
    /\ UNCHANGED core_vars
    /\ UNCHANGED <<email, matrix, manager>>

SelectDisplayNames(net_account, ok) ==
    /\ engine.calls[net_account].pc = "select_display_names"
    /\ engine' = select_display_names(net_account, ok)
    /\ UNCHANGED core_vars
    /\ UNCHANGED <<email, matrix, manager>>

InsertDisplayName(net_account, ok) ==
    /\ engine.calls[net_account].pc = "insert_display_name"
    /\ display_names' = insert_display_name(net_account, ok).display_names
    /\ engine' = insert_display_name(net_account, ok).engine
    /\ UNCHANGED <<identities, lookup_addresses, on_chain_challenges, outcomes,
                   last, nops, limit>>
    /\ UNCHANGED <<email, matrix, manager>>

InsertDisplayNameViolations(net_account, ok) ==
    /\ engine.calls[net_account].pc = "insert_display_name_violations"
    /\ engine' = insert_display_name_violations(net_account, ok)
    /\ UNCHANGED core_vars
    /\ UNCHANGED <<email, matrix, manager>>

SetAccountStatus(net_account, ok) ==
    /\ engine.calls[net_account].pc = "set_account_status"
    /\ engine' = set_account_status(net_account, ok)
    /\ UNCHANGED core_vars
    /\ UNCHANGED <<email, matrix, manager>>

SetChallengeStatus(net_account, ok) ==
    /\ engine.calls[net_account].pc = "set_challenge_status"
    /\ engine' = set_challenge_status(net_account, ok)
    /\ UNCHANGED core_vars
    /\ UNCHANGED <<email, matrix, manager>>

\* handle_display_name_matching for net_account: the call goes on from the
\* database call it awaits, which succeeds or returns an error.
HandleDisplayNameMatching(net_account) ==
    \E ok \in BOOLEAN :
       \/ SelectDisplayNames(net_account, ok)
       \/ InsertDisplayName(net_account, ok)
       \/ InsertDisplayNameViolations(net_account, ok)
       \/ SetAccountStatus(net_account, ok)
       \/ SetChallengeStatus(net_account, ok)

EngineNext ==
    \E net_account \in NetAccounts :
       \/ Recv(net_account)
       \/ HandleDisplayNameMatching(net_account)

EngineSpec == EngineInit /\ [][EngineNext]_vars

(****************************** serialization *******************************)

\* #[derive(Serialize)] of ChallengeStatus (tag = "type", content = "state"):
\* every field of the variant's struct is written.
serialize_challenge(c) ==
    CASE c.type = "expect_message" ->
            [type |-> "expect_message",
             state |-> [expected_message |-> c.expected_message, from |-> c.from,
                        to |-> c.to, status |-> c.status]]
      [] c.type = "back_and_forth" ->
            [type |-> "back_and_forth",
             state |-> [expected_message |-> c.expected_message,
                        expected_message_back |-> c.expected_message_back,
                        from |-> c.from, to |-> c.to,
                        first_check_status |-> c.first_check_status,
                        second_check_status |-> c.second_check_status]]
      [] c.type = "display_name_check" ->
            [type |-> "display_name_check",
             state |-> [status |-> c.status, similarities |-> c.similarities]]
      [] c.type = "unsupported" -> [type |-> "unsupported"]

\* #[derive(Serialize)] of FieldStatus
serialize_field_status(status) ==
    [field |-> status.field, is_permitted |-> status.is_permitted,
     challenge |-> serialize_challenge(status.challenge)]

\* #[derive(Serialize)] of IdentityState, as export_state / lookup_full_state
\* build it for one address.
serialize_identity_state(net_address, fields, on_chain_challenge) ==
    [net_address |-> net_address, on_chain_challenge |-> on_chain_challenge,
     fields |-> [ty \in DOMAIN fields |-> serialize_field_status(fields[ty])]]

(********************************* claims ***********************************)

\* Vocabulary of the properties.  The fields they range over: those claimed
\* and those indexed.
AllFields == ClaimedFields \cup DOMAIN lookup_addresses

\* The stored status of address a for the type ty, where there is one.
HasStatus(a, ty) == a \in DOMAIN identities /\ ty \in DOMAIN identities[a]

\* C1 (reverse-index consistency): for every address a and field f, a is in
\* lookup_addresses[f] if and only if identities[a] has an entry of f's type
\* whose stored field equals f.
C1_ReverseIndexConsistent ==
    \A a \in NetworkAddress, f \in AllFields :
        (f \in DOMAIN lookup_addresses /\ a \in lookup_addresses[f])
        <=> (HasStatus(a, as_type(f)) /\ identities[a][as_type(f)].field = f)

\* C2 (valid is final): once a stored status is valid, update_field returns
\* None and leaves the maps as they are for every supplied status of that
\* field type, verify_message gives no outcome for that identity whatever the
\* message and the iteration order, and verify_display_name returns Ok(None)
\* for a valid display-name check.
C2_ValidIsFinal ==
    \A a \in NetworkAddress, ty \in IdentityFieldType :
        (HasStatus(a, ty) /\ is_valid(identities[a][ty])) =>
            /\ \A verified \in VerifiedInputs :
                  (verified.net_address = a /\ as_type(verified.field_status.field) = ty)
                  => /\ update_field(verified).result = Ok(None)
                     /\ update_field(verified).identities = identities
            /\ \A f \in AllFields, m \in Messages :
                  (as_type(f) = ty /\ f \in DOMAIN lookup_addresses)
                  => \A order \in Orders(lookup_addresses[f]) :
                        LET r == verify_message(f, m, order)
                        IN  ~(r.some /\ r.val.net_address = a)
            /\ identities[a][ty].challenge.type = "display_name_check"
               => \A n \in DisplayNames, name_order \in Orders(DOMAIN display_names) :
                     verify_display_name(a, n, name_order) = Ok(None)

\* update_field was just handed a status for a field that is valid, and
\* returned None.
C2_Witness ==
    /\ last.op = "update_field"
    /\ last.result = Ok(None)
    /\ HasStatus(last.net_address, as_type(last.field))
    /\ is_valid(identities[last.net_address][as_type(last.field)])

\* C3 (first leg): when a BackAndForth field whose first check is not valid
\* is handed its own status with the first check valid, update_field commits
\* it and returns BackAndForthExpected(field).
C3_FirstLegGivesBackAndForthExpected ==
    \A verified \in VerifiedInputs :
        LET a == verified.net_address
            supplied == verified.field_status
            ty == as_type(supplied.field)
        IN  (/\ HasStatus(a, ty)
             /\ identities[a][ty].challenge.type = "back_and_forth"
             /\ identities[a][ty].challenge.first_check_status # Valid
             /\ supplied = [identities[a][ty] EXCEPT !.challenge.first_check_status = Valid])
            => /\ update_field(verified).result
                    = Ok(Some(Changes("BackAndForthExpected", supplied.field)))
               /\ update_field(verified).identities[a][ty] = supplied

\* C4 (second leg): when a BackAndForth field whose first check is valid and
\* whose second is not is handed its own status with the second check valid,
\* update_field commits it, the stored status is then valid, and the result
\* is VerificationValid(field).
C4_SecondLegGivesVerificationValid ==
    \A verified \in VerifiedInputs :
        LET a == verified.net_address
            supplied == verified.field_status
            ty == as_type(supplied.field)
        IN  (/\ HasStatus(a, ty)
             /\ identities[a][ty].challenge.type = "back_and_forth"
             /\ identities[a][ty].challenge.first_check_status = Valid
             /\ identities[a][ty].challenge.second_check_status # Valid
             /\ supplied = [identities[a][ty] EXCEPT !.challenge.second_check_status = Valid])
            => /\ update_field(verified).result
                    = Ok(Some(Changes("VerificationValid", supplied.field)))
               /\ is_valid(update_field(verified).identities[a][ty])

\* C5 (expected_message_back is not serialized): the serialized form of an
\* identity state does not depend on the expected_message_back of its
\* BackAndForth challenges.
C5_BackTokenNotSerialized ==
    \A a \in NetworkAddress, ty \in IdentityFieldType, token \in Tokens :
        (/\ HasStatus(a, ty)
         /\ a \in DOMAIN on_chain_challenges
         /\ identities[a][ty].challenge.type = "back_and_forth")
        => serialize_identity_state(a,
              [identities[a] EXCEPT ![ty].challenge.expected_message_back = token],
              on_chain_challenges[a])
           = serialize_identity_state(a, identities[a], on_chain_challenges[a])

\* C6 (second implies first): when update_field is handed only outcomes of
\* verify_message and verify_display_name, every stored BackAndForth status
\* whose second check is valid has its first check valid.
C6_SecondImpliesFirst ==
    \A a \in NetworkAddress, ty \in IdentityFieldType :
        (/\ HasStatus(a, ty)
         /\ identities[a][ty].challenge.type = "back_and_forth"
         /\ identities[a][ty].challenge.second_check_status = Valid)
        => identities[a][ty].challenge.first_check_status = Valid

\* update_field has just committed an outcome that made the second check of
\* a BackAndForth status valid.
C6_Witness ==
    /\ last.op = "update_field"
    /\ last.changed
    /\ HasStatus(last.net_address, as_type(last.field))
    /\ identities[last.net_address][as_type(last.field)].challenge.type = "back_and_forth"
    /\ identities[last.net_address][as_type(last.field)].challenge.second_check_status = Valid

\* The supplied status is a successor of the stored one that the rules
\* permit: the same field (which is the challenge's from), the same variant,
\* expected messages and to, and a second check valid only with the first.
PermittedSuccessor(stored, supplied) ==
    /\ supplied.field = stored.field
    /\ supplied.is_permitted = stored.is_permitted
    /\ supplied.challenge.type = stored.challenge.type
    /\ supplied.challenge.type \in {"expect_message", "back_and_forth"}
       => /\ supplied.challenge.from = supplied.field
          /\ supplied.challenge.to = stored.challenge.to
          /\ supplied.challenge.expected_message = stored.challenge.expected_message
    /\ supplied.challenge.type = "back_and_forth"
       => /\ supplied.challenge.expected_message_back
                = stored.challenge.expected_message_back
          /\ supplied.challenge.second_check_status = Valid
             => supplied.challenge.first_check_status = Valid

\* C7 (only permitted successors are committed): whenever update_field
\* changes the stored status, the supplied status is a permitted successor of
\* the status that was stored.
C7_CommitsOnlyPermittedSuccessors ==
    \A verified \in VerifiedInputs :
        LET a == verified.net_address
            ty == as_type(verified.field_status.field)
        IN  (HasStatus(a, ty) /\ update_field(verified).result # Ok(None))
            => PermittedSuccessor(identities[a][ty], verified.field_status)

\* C8 (Unsupported never transitions): for a stored status whose challenge
\* is Unsupported, update_field returns None and leaves the maps as they are
\* for every supplied status of its field type, and verify_message gives no
\* outcome for it.
C8_UnsupportedNeverTransitions ==
    \A a \in NetworkAddress, ty \in IdentityFieldType :
        (HasStatus(a, ty) /\ identities[a][ty].challenge.type = "unsupported") =>
            /\ \A verified \in VerifiedInputs :
                  (verified.net_address = a /\ as_type(verified.field_status.field) = ty)
                  => /\ update_field(verified).result = Ok(None)
                     /\ update_field(verified).identities = identities
            /\ \A f \in AllFields, m \in Messages :
                  (as_type(f) = ty /\ f \in DOMAIN lookup_addresses)
                  => \A order \in Orders(lookup_addresses[f]) :
                        LET r == verify_message(f, m, order)
                        IN  ~(r.some /\ r.val.net_address = a)

\* C9 (display names are recorded only after a successful check):
\* persist_display_name records the name n for the address a only if the
\* display name a claims is n and its CheckDisplayName status is valid.
C9_PersistsOnlyCheckedNames ==
    \A persisted \in PersistedInputs :
        LET a == persisted.net_address
            n == persisted.display_name
        IN  persist_display_name(persisted).result.ok
            => /\ HasStatus(a, "display_name")
               /\ identities[a]["display_name"].field = DisplayName(n)
               /\ identities[a]["display_name"].challenge.type = "display_name_check"
               /\ identities[a]["display_name"].challenge.status = Valid

\* C10 (verify_message reaches every holder): if some holder of the field has
\* an ExpectMessage or BackAndForth challenge for it that is not valid yet,
\* verify_message returns an outcome, whatever the message and the order in
\* which the holders are visited.
C10_SomeOutcomeWhateverTheOrder ==
    \A f \in AllFields, m \in Messages :
        (/\ f \in DOMAIN lookup_addresses
         /\ \E a \in lookup_addresses[f] :
               /\ HasStatus(a, as_type(f))
               /\ identities[a][as_type(f)].field = f
               /\ identities[a][as_type(f)].challenge.type
                     \in {"expect_message", "back_and_forth"}
               /\ is_not_valid(identities[a][as_type(f)]))
        => \A order \in Orders(lookup_addresses[f]) :
              verify_message(f, m, order).some

\* C11 (every identity has its on-chain challenge): identities and
\* on_chain_challenges have the same keys, so export_state and
\* lookup_full_state never fail on a missing challenge and
\* get_on_chain_challenge(a) is Some exactly for the inserted addresses.
C11_ChallengeForEveryIdentity ==
    /\ DOMAIN identities = DOMAIN on_chain_challenges
    /\ export_state # Panic
    /\ \A a \in NetworkAddress :
          /\ lookup_full_state(a) # Panic
          /\ get_on_chain_challenge(a).some <=> a \in DOMAIN identities

\* Both addresses are inserted, an insert being the last call, and
\* export_state returns the two identity states.
C11_Witness ==
    /\ DOMAIN identities = NetworkAddress
    /\ last.op = "insert_identity"
    /\ last.changed
    /\ nops >= 3
    /\ export_state # Panic
    /\ Cardinality(export_state.states) = 2

\* C12 (first insert): insert_identity for an address not yet present stores
\* exactly the supplied fields and the supplied on-chain challenge, indexes
\* the address under every supplied field, and gives one
\* NewIdentityInserted(net_address); for an address already present it gives
\* no NewIdentityInserted.
C12_FirstInsertStoresAndAnnounces ==
    \A identity \in IdentityInputs :
        LET a == identity.net_address
            r == insert_identity(identity)
            announced == Some(NewIdentityInserted(a))
        IN  IF a \notin DOMAIN identities
            THEN /\ r.identities[a] = identity.fields
                 /\ r.on_chain_challenges[a] = identity.on_chain_challenge
                 /\ \A ty \in DOMAIN identity.fields :
                       /\ identity.fields[ty].field \in DOMAIN r.lookup_addresses
                       /\ a \in r.lookup_addresses[identity.fields[ty].field]
                 /\ r.result = announced
            ELSE r.result # announced

\* C13 (reconciliation preserves progress): when insert_identity is called
\* for an address already present, every stored status whose type is in the
\* new fields with the same field value stays exactly as stored, whatever
\* tokens and validity the incoming status has, and the stored on-chain
\* challenge stays.
C13_ReconciliationKeepsProgress ==
    \A identity \in IdentityInputs :
        LET a == identity.net_address
            r == insert_identity(identity)
        IN  a \in DOMAIN identities
            => /\ r.on_chain_challenges[a] = on_chain_challenges[a]
               /\ \A ty \in (DOMAIN identities[a]) \cap (DOMAIN identity.fields) :
                     identities[a][ty].field = identity.fields[ty].field
                     => r.identities[a][ty] = identities[a][ty]

\* insert_identity was just called for alice, whose e-mail field had its
\* first check valid, and left her fields as they were.
C13_Witness ==
    /\ last.op = "insert_identity"
    /\ last.net_address = "alice"
    /\ ~last.changed
    /\ HasStatus("alice", "email")
    /\ identities["alice"]["email"].challenge.type = "back_and_forth"
    /\ identities["alice"]["email"].challenge.first_check_status = Valid

\* C14 (reconciliation takes the new fields): after insert_identity for an
\* address already present, the stored field types are exactly those of the
\* new fields; every type that is new, or whose field value differs from the
\* stored one, holds the incoming status, and the address is indexed under
\* the field of every such entry.
C14_ReconciliationTakesNewFields ==
    \A identity \in IdentityInputs :
        LET a == identity.net_address
            r == insert_identity(identity)
        IN  a \in DOMAIN identities
            => /\ DOMAIN r.identities[a] = DOMAIN identity.fields
               /\ \A ty \in DOMAIN identity.fields :
                     (\/ ty \notin DOMAIN identities[a]
                      \/ identities[a][ty].field # identity.fields[ty].field)
                     => /\ r.identities[a][ty] = identity.fields[ty]
                        /\ identity.fields[ty].field \in DOMAIN r.lookup_addresses
                        /\ a \in r.lookup_addresses[identity.fields[ty].field]

\* alice, first inserted with the e-mail address e1, was just reconciled to
\* the request with e2, a twitter account and a legal name.
C14_Witness ==
    /\ last.op = "insert_identity"
    /\ last.net_address = "alice"
    /\ last.changed
    /\ Email("e1") \in DOMAIN lookup_addresses
    /\ "alice" \in lookup_addresses[Email("e1")]
    /\ HasStatus("alice", "email")
    /\ DOMAIN identities["alice"] = {"email", "twitter", "legal_name"}
    /\ identities["alice"]["email"]
          = FieldStatusFrom(Email("e2"), RegistrarIdentityField("email"), "a1", "b2")

\* C15 (the same insert twice): when a step is insert_identity(identity),
\* a second insert_identity(identity) made right after it would leave
\* identities, lookup_addresses and on_chain_challenges as they are (it does
\* not write display_names) and give no event.
C15_SameInsertTwice ==
    [][\A identity \in IdentityInputs :
          (/\ last'.op = "insert_identity"
           /\ last'.net_address = identity.net_address
           /\ identities' = insert_identity(identity).identities
           /\ lookup_addresses' = insert_identity(identity).lookup_addresses
           /\ on_chain_challenges' = insert_identity(identity).on_chain_challenges)
          => /\ insert_identity(identity).identities' = identities'
             /\ insert_identity(identity).lookup_addresses' = lookup_addresses'
             /\ insert_identity(identity).on_chain_challenges' = on_chain_challenges'
             /\ insert_identity(identity).result' = Unit
             /\ display_names' = display_names]_vars

\* An insert was just repeated: the call changed nothing and the stored
\* fields of the address are those of a request, inserted before.
C15_Witness ==
    /\ last.op = "insert_identity"
    /\ ~last.changed
    /\ nops = 1
    /\ \E identity \in IdentityInputs :
          /\ identity.net_address = last.net_address
          /\ identity.fields # <<>>
          /\ identities[last.net_address] = identity.fields

\* Some part of the message is a substring of the expected message.
Matches(expected, message) ==
    \E i \in 1 .. Len(message) : StrContains(expected, message[i])

\* C16 (R2): when the first holder verify_message visits has an ExpectMessage
\* status that is unconfirmed or invalid, the call returns that status with
\* the validity valid if some part of the message is a substring of
\* expected_message and invalid otherwise, and nothing else changed.
C16_ExpectMessageOutcome ==
    \A f \in AllFields, m \in Messages :
        f \in DOMAIN lookup_addresses
        => \A order \in Orders(lookup_addresses[f]) :
              \A a \in {order[i] : i \in (DOMAIN order) \cap {1}} :
                 (/\ HasStatus(a, as_type(f))
                  /\ identities[a][as_type(f)].challenge.type = "expect_message"
                  /\ identities[a][as_type(f)].challenge.status # Valid)
                 => verify_message(f, m, order)
                       = Some(Outcome(a,
                            [identities[a][as_type(f)] EXCEPT !.challenge.status =
                                IF Matches(identities[a][as_type(f)].challenge.expected_message, m)
                                THEN Valid ELSE Invalid]))

\* verify_message just returned a valid outcome for an ExpectMessage status
\* that is stored as invalid.
C16_Witness ==
    /\ last.op = "verify_message"
    /\ last.result.some
    /\ last.result.val.field_status.challenge.type = "expect_message"
    /\ last.result.val.field_status.challenge.status = Valid
    /\ HasStatus(last.result.val.net_address, as_type(last.field))
    /\ identities[last.result.val.net_address][as_type(last.field)].challenge.type
          = "expect_message"
    /\ identities[last.result.val.net_address][as_type(last.field)].challenge.status
          = Invalid

\* C17 (invalid is not terminal): for a holder that verify_message visits
\* first and whose check for the field is not valid (unconfirmed or invalid:
\* an ExpectMessage status, the first leg of a BackAndForth status, or its
\* second leg once the first is valid), a message matching the token of that
\* check gives an outcome for that holder, and update_field on the outcome
\* commits it with the check valid.
C17_InvalidIsNotTerminal ==
    \A f \in AllFields, m \in Messages :
        f \in DOMAIN lookup_addresses
        => \A order \in Orders(lookup_addresses[f]) :
              \A a \in {order[i] : i \in (DOMAIN order) \cap {1}} :
                 HasStatus(a, as_type(f))
                 => LET c == identities[a][as_type(f)].challenge
                        o == verify_message(f, m, order)
                        after(verified) ==
                            update_field(verified).identities[a][as_type(f)].challenge
                    IN  /\ (/\ c.type = "expect_message"
                            /\ c.status # Valid
                            /\ Matches(c.expected_message, m))
                           => /\ o.some
                              /\ o.val.net_address = a
                              /\ after(o.val).status = Valid
                        /\ (/\ c.type = "back_and_forth"
                            /\ c.first_check_status # Valid
                            /\ Matches(c.expected_message, m))
                           => /\ o.some
                              /\ o.val.net_address = a
                              /\ after(o.val).first_check_status = Valid
                        /\ (/\ c.type = "back_and_forth"
                            /\ c.first_check_status = Valid
                            /\ c.second_check_status # Valid
                            /\ Matches(c.expected_message_back, m))
                           => /\ o.some
                              /\ o.val.net_address = a
                              /\ after(o.val).second_check_status = Valid

\* The first leg of a BackAndForth status is stored as invalid and
\* verify_message just returned an outcome in which it is valid.
C17_Witness ==
    /\ last.op = "verify_message"
    /\ last.result.some
    /\ last.result.val.field_status.challenge.type = "back_and_forth"
    /\ last.result.val.field_status.challenge.first_check_status = Valid
    /\ HasStatus(last.result.val.net_address, as_type(last.field))
    /\ identities[last.result.val.net_address][as_type(last.field)].challenge.type
          = "back_and_forth"
    /\ identities[last.result.val.net_address][as_type(last.field)].challenge.first_check_status
          = Invalid

\* C18 (the second leg of BackAndForth follows the first): for a holder that
\* verify_message visits first and whose status for the field is BackAndForth,
\* while the first check is not valid the outcome is the stored status with
\* only first_check_status set, valid if a part of the message is in
\* expected_message and invalid otherwise (so a message holding only
\* expected_message_back makes it invalid) and second_check_status as stored;
\* once the first check is valid and the second is not, the outcome is the
\* stored status with only second_check_status set, from expected_message_back
\* alone, and first_check_status still valid.
C18_SecondLegAfterFirst ==
    \A f \in AllFields, m \in Messages :
        f \in DOMAIN lookup_addresses
        => \A order \in Orders(lookup_addresses[f]) :
              \A a \in {order[i] : i \in (DOMAIN order) \cap {1}} :
                 (/\ HasStatus(a, as_type(f))
                  /\ identities[a][as_type(f)].challenge.type = "back_and_forth")
                 => LET stored == identities[a][as_type(f)]
                        c == stored.challenge
                        o == verify_message(f, m, order)
                    IN  /\ c.first_check_status # Valid
                           => /\ o = Some(Outcome(a,
                                    [stored EXCEPT !.challenge.first_check_status =
                                        IF Matches(c.expected_message, m)
                                        THEN Valid ELSE Invalid]))
                              /\ o.val.field_status.challenge.second_check_status
                                    = c.second_check_status
                        /\ (c.first_check_status = Valid /\ c.second_check_status # Valid)
                           => /\ o = Some(Outcome(a,
                                    [stored EXCEPT !.challenge.second_check_status =
                                        IF Matches(c.expected_message_back, m)
                                        THEN Valid ELSE Invalid]))
                              /\ o.val.field_status.challenge.first_check_status = Valid

\* verify_message just returned an outcome with both checks valid for a
\* BackAndForth status stored with the first check valid and the second
\* unconfirmed.
C18_Witness ==
    /\ last.op = "verify_message"
    /\ last.result.some
    /\ last.result.val.field_status.challenge.type = "back_and_forth"
    /\ last.result.val.field_status.challenge.first_check_status = Valid
    /\ last.result.val.field_status.challenge.second_check_status = Valid
    /\ HasStatus(last.result.val.net_address, as_type(last.field))
    /\ identities[last.result.val.net_address][as_type(last.field)].challenge.type
          = "back_and_forth"
    /\ identities[last.result.val.net_address][as_type(last.field)].challenge.first_check_status
          = Valid
    /\ identities[last.result.val.net_address][as_type(last.field)].challenge.second_check_status
          = Unconfirmed

\* The step processes message m sent from field f: it is update_field on the
\* outcome verify_message gives for m in the state the step starts from.
Processes(f, m) ==
    /\ f \in DOMAIN lookup_addresses
    /\ \E order \in Orders(lookup_addresses[f]) :
          \E o \in {verify_message(f, m, order)} :
             /\ o.some
             /\ last'.op = "update_field"
             /\ last'.net_address = o.val.net_address
             /\ last'.result = update_field(o.val).result
             /\ identities' = update_field(o.val).identities

\* Processing m from f in the state the step ends in changes nothing and
\* gives no UpdateChanges, whatever the iteration order.
RedeliveryIsSilent(f, m) ==
    \A order \in Orders(lookup_addresses'[f]) :
       \A o \in {verify_message(f, m, order)'} :
          o.some => /\ (update_field(o.val).identities)' = identities'
                    /\ (update_field(o.val).result)' = Ok(None)

\* C19 (re-delivery is idempotent): after a step that processes a message,
\* processing the same message again leaves the manager as it is and
\* produces no UpdateChanges.
C19_RedeliveryIdempotent ==
    [][\A f \in AllFields, m \in Messages :
          Processes(f, m) => RedeliveryIsSilent(f, m)]_vars

\* C20 (update_field rejects cleanly): a call of update_field returns the
\* error "network address not found" when the address has no entry, the
\* error "field not found" when the identity has no field of the type of the
\* supplied status, and Ok otherwise (never a panic); unless it returns
\* Ok(Some(changes)), the four maps are what they were before the call.
C20_UpdateFieldRejectsCleanly ==
    [][last'.op = "update_field"
       => LET a == last'.net_address
              ty == as_type(last'.field)
              result == last'.result
          IN  /\ result # Panic
              /\ IF a \notin DOMAIN identities
                 THEN result = Err("network address not found")
                 ELSE IF ty \notin DOMAIN identities[a]
                 THEN result = Err("field not found")
                 ELSE result.ok
              /\ (IF result.ok THEN ~result.val.some ELSE TRUE)
                 => UNCHANGED <<identities, lookup_addresses, display_names,
                                on_chain_challenges>>]_vars

\* update_field just returned the error for a field type the identity does
\* not have.
C20_Witness ==
    /\ last.op = "update_field"
    /\ last.result = Err("field not found")
    /\ last.net_address \in DOMAIN identities

\* The persisted display names (by the address they are persisted for)
\* that the similarity engine finds too similar to the candidate.
Conflicting(candidate) ==
    {k \in DOMAIN display_names : is_too_similar(display_names[k], candidate)}

\* C21 (verify_display_name): for an address whose display-name field has a
\* CheckDisplayName challenge that is not valid, the call returns an outcome
\* for that address which is the stored status with status valid and no
\* similarities when no persisted display name is too similar to the
\* candidate, and with status invalid and the too similar persisted names as
\* similarities otherwise; it returns an error when the address is unknown,
\* has no display-name field, or the field has another challenge.
C21_VerifyDisplayNameOutcome ==
    \A a \in NetworkAddress, n \in DisplayNames :
       \A name_order \in Orders(DOMAIN display_names) :
          \A r \in {verify_display_name(a, n, name_order)} :
             IF ~HasStatus(a, "display_name")
             THEN ~r.ok
             ELSE LET stored == identities[a]["display_name"]
                      with(challenge) ==
                          Ok(Some(Outcome(a, [stored EXCEPT !.challenge = challenge])))
                  IN  IF stored.challenge.type # "display_name_check"
                      THEN ~r.ok
                      ELSE stored.challenge.status # Valid
                           => IF Conflicting(n) = {}
                              THEN r = with(CheckDisplayName(Valid, None))
                              ELSE /\ r.ok
                                   /\ r.val.some
                                   /\ r.val.val.field_status.challenge.similarities.some
                                   /\ \A sims \in {r.val.val.field_status.challenge.similarities.val} :
                                         /\ r = with(CheckDisplayName(Invalid, Some(sims)))
                                         /\ Len(sims) = Cardinality(Conflicting(n))
                                         /\ {sims[i] : i \in DOMAIN sims}
                                               = {display_names[k] : k \in Conflicting(n)}

\* verify_display_name just returned an invalid outcome that lists a
\* persisted name.
C21_Witness ==
    /\ last.op = "verify_display_name"
    /\ last.result.ok
    /\ last.result.val.some
    /\ last.result.val.val.field_status.challenge.status = Invalid
    /\ last.result.val.val.field_status.challenge.similarities = Some(<<"Alice">>)

\* C22 (persist_display_name): a call for (a, n) with a in
\* lookup_addresses[display_name(n)] returns Ok, makes display_names[a] = n
\* and changes nothing else; any other call returns an error and leaves
\* the four maps as they were.
C22_PersistNeedsReverseIndex ==
    [][last'.op = "persist_display_name"
       => LET a == last'.net_address
              f == last'.field
          IN  IF f \in DOMAIN lookup_addresses /\ a \in lookup_addresses[f]
              THEN /\ last'.result = Ok(Unit)
                   /\ display_names' =
                         [k \in DOMAIN display_names \cup {a} |->
                             IF k = a THEN f.addr ELSE display_names[k]]
                   /\ UNCHANGED <<identities, lookup_addresses, on_chain_challenges>>
              ELSE /\ ~last'.result.ok
                   /\ UNCHANGED <<identities, lookup_addresses, display_names,
                                  on_chain_challenges>>]_vars

\* persist_display_name just recorded a name.
C22_Witness ==
    /\ last.op = "persist_display_name"
    /\ last.result = Ok(Unit)
    /\ last.changed
    /\ display_names[last.net_address] = last.field.addr

\* The validities a status carries: one for ExpectMessage and
\* CheckDisplayName, two for BackAndForth, none for Unsupported.
Checks(status) ==
    CASE status.challenge.type = "back_and_forth" ->
            {status.challenge.first_check_status, status.challenge.second_check_status}
      [] status.challenge.type \in {"expect_message", "display_name_check"} ->
            {status.challenge.status}
      [] OTHER -> {}

\* C23 (is_fully_verified): for an inserted address the call returns Ok(true)
\* if every stored field has a supported challenge all of whose checks are
\* valid (both checks of a BackAndForth), and Ok(false) otherwise, in
\* particular while a check of some field is unconfirmed or invalid; for an
\* address that was never inserted it returns an error.
C23_FullyVerified ==
    \A a \in NetworkAddress :
       IF a \in DOMAIN identities
       THEN /\ is_fully_verified(a) =
                  Ok(\A ty \in DOMAIN identities[a] :
                        /\ identities[a][ty].challenge.type # "unsupported"
                        /\ Checks(identities[a][ty]) = {Valid})
            /\ (\E ty \in DOMAIN identities[a] :
                   Checks(identities[a][ty]) \cap {Unconfirmed, Invalid} # {})
               => is_fully_verified(a) = Ok(FALSE)
       ELSE ~is_fully_verified(a).ok

\* An identity with a BackAndForth field is fully verified.
C23_Witness ==
    \E a \in DOMAIN identities :
       /\ "email" \in DOMAIN identities[a]
       /\ identities[a]["email"].challenge.type = "back_and_forth"
       /\ is_fully_verified(a) = Ok(TRUE)

\* No holder of the field has a challenge that takes messages: the field is
\* not in the reverse index, or every address listed for it has, for the
\* type of the field, a CheckDisplayName or an Unsupported challenge.
Unrecognized(f) ==
    f \in DOMAIN lookup_addresses
    => \A a \in lookup_addresses[f] :
          /\ HasStatus(a, as_type(f))
          /\ identities[a][as_type(f)].challenge.type
                \in {"display_name_check", "unsupported"}

\* C24 (unrecognized stimuli have no effect): a call of verify_message for a
\* field no holder of which has a challenge that takes messages returns
\* None, whatever the message and the iteration order, changes none of the
\* four maps and adds no outcome to those awaiting update_field.
C24_UnrecognizedHasNoEffect ==
    [][(last'.op = "verify_message" /\ Unrecognized(last'.field))
       => /\ last'.result = None
          /\ UNCHANGED <<identities, lookup_addresses, display_names,
                         on_chain_challenges, outcomes>>]_vars

\* verify_message just returned None for a field that is in the reverse
\* index and whose holders all have an Unsupported challenge for it.
C24_Witness ==
    /\ last.op = "verify_message"
    /\ last.result = None
    /\ last.field \in DOMAIN lookup_addresses
    /\ lookup_addresses[last.field] # {}
    /\ \A a \in lookup_addresses[last.field] :
          /\ HasStatus(a, as_type(last.field))
          /\ identities[a][as_type(last.field)].challenge.type = "unsupported"

\* The fields the factory is tried on: one of every type.
FactoryFields == {Field(ty, addr) : ty \in IdentityFieldType, addr \in {"e1", "Alice"}}

\* C25 (challenge factory): for a field of every type and for every field
\* claimed or indexed, with the registrar's
\* field of that type and any two token draws, the status made has the
\* field itself and: for legal_name, web, pgp_fingerprint, image and
\* additional the Unsupported challenge and is_permitted false; for
\* display_name CheckDisplayName, unconfirmed, no similarities; for email
\* BackAndForth with both checks unconfirmed; for twitter and matrix
\* ExpectMessage, unconfirmed; is_permitted true for all but Unsupported;
\* from the claimed field and to the registrar's field in the two
\* interactive challenges.
C25_ChallengeFactory ==
    \A from \in FactoryFields \cup AllFields, draw \in {Draw1, Draw2} :
       \A to \in {RegistrarIdentityField(from.ty)} :
          \A made \in {FieldStatusFrom(from, to, draw.expected_message,
                                       draw.expected_message_back)} :
             /\ made.field = from
             /\ made.is_permitted = (made.challenge # [type |-> "unsupported"])
             /\ from.ty \in {"legal_name", "web", "pgp_fingerprint", "image", "additional"}
                => made.challenge = [type |-> "unsupported"]
             /\ from.ty = "display_name"
                => made.challenge = [type |-> "display_name_check",
                                     status |-> Unconfirmed,
                                     similarities |-> None]
             /\ from.ty = "email"
                => made.challenge = [type |-> "back_and_forth",
                                     expected_message |-> draw.expected_message,
                                     expected_message_back |-> draw.expected_message_back,
                                     from |-> from, to |-> to,
                                     first_check_status |-> Unconfirmed,
                                     second_check_status |-> Unconfirmed]
             /\ from.ty \in {"twitter", "matrix"}
                => made.challenge = [type |-> "expect_message",
                                     expected_message |-> draw.expected_message,
                                     from |-> from, to |-> to,
                                     status |-> Unconfirmed]

\* A judgement request with an e-mail, a Twitter and a legal-name field was
\* just inserted for a new address: the stored statuses are those the
\* factory made.
C25_Witness ==
    /\ last.op = "insert_identity"
    /\ HasStatus(last.net_address, "email")
    /\ HasStatus(last.net_address, "twitter")
    /\ HasStatus(last.net_address, "legal_name")
    /\ \A ty \in DOMAIN identities[last.net_address] :
          \E draw \in {Draw1, Draw2} :
             identities[last.net_address][ty] =
                FieldStatusFrom(identities[last.net_address][ty].field,
                                RegistrarIdentityField(ty),
                                draw.expected_message, draw.expected_message_back)

\* The registered names too similar to the candidate, in registry order.
ConflictsOf(account) ==
    LET conflicting(display_name) == is_too_similar(display_name, account)
    IN  SelectSeq(display_names, conflicting)

\* C26 (violations cap): for every registry and candidate the violations
\* are at most VIOLATIONS_CAP, and they are the first VIOLATIONS_CAP
\* registered names too similar to the candidate: a name after the fifth
\* violating one is not among them, too similar or not.
C26_ViolationsCapped ==
    \A account \in EngineNames :
       \A violations \in {collect_violations(display_names, account, <<>>)} :
          /\ Len(violations) <= 5
          /\ \A conflicts \in {ConflictsOf(account)} :
                violations = SubSeq(conflicts, 1, Min(Len(conflicts), 5))

\* The engine just reported five violations for a candidate that more than
\* five names of the registry are too similar to.
C26_Witness ==
    \E net_account \in NetAccounts :
       /\ engine.calls[net_account].result = Some(Ok(Unit))
       /\ net_account \in DOMAIN engine.display_name_violations
       /\ engine.display_name_violations[net_account]
             = engine.calls[net_account].violations
       /\ Len(engine.calls[net_account].violations) = 5
       /\ Len(ConflictsOf(engine.calls[net_account].account)) > 5

\* The four similarities of every pair of names, each by its definition:
\* <<existing, candidate, Jaro of the lowercased names, word-wise Jaro for
\* the space, for the hyphen, for the underscore>>.
FourSimilarities ==
    {<<p[1], p[2],
       jaro(to_lowercase(NameChars(p[1])), to_lowercase(NameChars(p[2]))),
       jaro_words(to_lowercase(NameChars(p[1])), to_lowercase(NameChars(p[2])), " "),
       jaro_words(to_lowercase(NameChars(p[1])), to_lowercase(NameChars(p[2])), "-"),
       jaro_words(to_lowercase(NameChars(p[1])), to_lowercase(NameChars(p[2])), "_")>>
     : p \in EngineNames \X EngineNames}

\* C27 (conflict): a registered name conflicts with a candidate exactly when
\* one of the four similarities is strictly greater than the limit; and a
\* registered name whose Jaro similarity with the candidate, both
\* lowercased, is greater than the limit is among the violations unless five
\* names before it in the registry conflict already.
C27_ConflictIffSomeSimilarityAboveLimit ==
    \A account \in EngineNames :
       \A violations \in {collect_violations(display_names, account, <<>>)} :
          \A i \in DOMAIN display_names :
             \A four \in {t \in FourSimilarities :
                             t[1] = display_names[i] /\ t[2] = account} :
                /\ is_too_similar(display_names[i], account)
                      = (\E k \in 3 .. 6 : RatGt(four[k], limit))
                /\ (/\ RatGt(four[3], limit)
                    /\ Cardinality({j \in 1 .. i - 1 :
                                       is_too_similar(display_names[j], account)}) < 5)
                   => \E k \in DOMAIN violations : violations[k] = display_names[i]

\* The engine just reported as a violation a registered name that is not the
\* candidate and whose Jaro similarity with it is at most the limit: the
\* names conflict by their words.
C27_Witness ==
    /\ limit = Limit
    /\ \E net_account \in DOMAIN engine.account_status :
          \E k \in DOMAIN engine.calls[net_account].violations :
             \E four \in FourSimilarities :
                /\ engine.calls[net_account].result = Some(Ok(Unit))
                /\ engine.account_status[net_account] = Invalid
                /\ four[1] = engine.calls[net_account].violations[k]
                /\ four[2] = engine.calls[net_account].account
                /\ four[1] # four[2]
                /\ ~RatGt(four[3], limit)
                /\ RatGt(four[4], limit)

\* Two characters that are the same letter, in the same case or not.
SameLetter(x, y) == x = y \/ {x, y} \in {{"A", "a"}, {"B", "b"}, {"I", "i"}}

\* The two names are identical after lowercasing.
SameLowercased(display_name, account) ==
    /\ Len(NameChars(display_name)) = Len(NameChars(account))
    /\ \A i \in 1 .. Len(NameChars(account)) :
          SameLetter(NameChars(display_name)[i], NameChars(account)[i])

\* C28 as claimed (identical names after lowercasing always conflict):
\* whatever the configured limit in [0, 1], a registered name that is
\* identical to the candidate after lowercasing is too similar to it.
C28_IdenticalNamesAlwaysConflict ==
    \A account \in EngineNames :
       \A i \in DOMAIN display_names :
          SameLowercased(display_names[i], account)
          => is_too_similar(display_names[i], account)

\* C28 as amended: the same for every configured limit below 1.
C28_IdenticalNamesConflictBelowOne ==
    RatGt(<<1, 1>>, limit)
    => \A account \in EngineNames :
          \A i \in DOMAIN display_names :
             SameLowercased(display_names[i], account)
             => is_too_similar(display_names[i], account)

\* With the limit 0.9 the engine just reported as a violation a registered
\* name that differs from the candidate in case only.
C28_Witness ==
    /\ limit = <<9, 10>>
    /\ \E net_account \in DOMAIN engine.challenge_status :
          \E k \in DOMAIN engine.calls[net_account].violations :
             /\ engine.calls[net_account].result = Some(Ok(Unit))
             /\ engine.challenge_status[net_account] = "rejected"
             /\ engine.calls[net_account].violations[k]
                   # engine.calls[net_account].account
             /\ SameLowercased(engine.calls[net_account].violations[k],
                               engine.calls[net_account].account)

\* The configured limit is 0.85, "Alice" is the only persisted display name,
\* and address a has a display-name check that is not valid.
AliceOnly(a) ==
    /\ limit = Limit
    /\ Cardinality(DOMAIN display_names) = 1
    /\ \A k \in DOMAIN display_names : display_names[k] = "Alice"
    /\ HasStatus(a, "display_name")
    /\ identities[a]["display_name"].challenge.type = "display_name_check"
    /\ identities[a]["display_name"].challenge.status # Valid

\* What verify_display_name returns for a with the challenge given.
DisplayNameOutcome(a, challenge) ==
    Ok(Some(Outcome(a, [identities[a]["display_name"] EXCEPT !.challenge = challenge])))

\* C29 as claimed ("Alicia" is rejected next to "Alice"): with limit 0.85
\* and "Alice" the only persisted display name, verify_display_name for the
\* candidate "Alicia" gives status invalid with similarities ["Alice"].
C29_AliciaRejected ==
    \A a \in NetworkAddress :
       AliceOnly(a)
       => \A name_order \in Orders(DOMAIN display_names) :
             verify_display_name(a, "Alicia", name_order)
                = DisplayNameOutcome(a, CheckDisplayName(Invalid, Some(<<"Alice">>)))

\* C29 as amended: none of the four similarities of "alice" and "alicia"
\* exceeds 0.85, their Jaro similarity being 37/45, and in that state
\* verify_display_name for the candidate "Alicia" gives status valid with no
\* similarities.
C29_AliciaAccepted ==
    /\ \A four \in {t \in FourSimilarities : t[1] = "Alice" /\ t[2] = "Alicia"} :
          /\ four[3][1] * 45 = 37 * four[3][2]
          /\ \A k \in 3 .. 6 : ~RatGt(four[k], Limit)
    /\ \A a \in NetworkAddress :
          AliceOnly(a)
          => \A name_order \in Orders(DOMAIN display_names) :
                verify_display_name(a, "Alicia", name_order)
                   = DisplayNameOutcome(a, CheckDisplayName(Valid, None))

\* verify_display_name was just called for the candidate "Alicia" of an
\* address with a display-name check that is not valid, with "Alice" the
\* only persisted display name, and returned a valid outcome.
C29_Witness ==
    /\ last.op = "verify_display_name"
    /\ last.field = DisplayName("Alicia")
    /\ AliceOnly(last.net_address)
    /\ last.result = DisplayNameOutcome(last.net_address, CheckDisplayName(Valid, None))

\* C30 (a remark matches by equality): for every identity and remark,
\* matches_remark on the identity's on-chain challenge is true exactly when
\* the text of the remark is, character by character, the challenge; a text
\* that is longer and contains the challenge, or that is a proper substring
\* of it, does not match.
C30_RemarkMatchesByEquality ==
    \A a \in DOMAIN on_chain_challenges, remark \in Remarks :
       \A challenge \in {get_on_chain_challenge(a).val} :
          /\ matches_remark(challenge, remark) = (Chars(remark.text) = Chars(challenge))
          /\ (/\ StrContains(remark.text, challenge)
              /\ Len(Chars(remark.text)) > Len(Chars(challenge)))
             => ~matches_remark(challenge, remark)
          /\ (/\ StrContains(challenge, remark.text)
              /\ Len(Chars(remark.text)) < Len(Chars(challenge)))
             => ~matches_remark(challenge, remark)

\* An identity was just inserted whose on-chain challenge matches the
\* remark with the same text, and neither the remark that contains it nor
\* the one that is a proper substring of it.
C30_Witness ==
    /\ last.op = "insert_identity"
    /\ last.net_address \in DOMAIN on_chain_challenges
    /\ on_chain_challenges[last.net_address] = "w3f_registrar:01"
    /\ matches_remark(get_on_chain_challenge(last.net_address).val,
                      [net_address |-> last.net_address, text |-> "w3f_registrar:01"])
    /\ ~matches_remark(get_on_chain_challenge(last.net_address).val,
                       [net_address |-> last.net_address, text |-> "w3f_registrar:01!"])
    /\ ~matches_remark(get_on_chain_challenge(last.net_address).val,
                       [net_address |-> last.net_address, text |-> "w3f_registrar:0"])

\* Some part of the message is the whole token.
EchoesToken(expected, message) ==
    \E i \in 1 .. Len(message) : Chars(message[i]) = Chars(expected)

\* C31 (a check turns valid only on the complete token): whenever
\* verify_message yields an ExpectMessage status that is valid, or a
\* BackAndForth status one of whose legs is valid while the stored leg is
\* not, some part of the provided message equals the full token of that
\* check; an empty part or a single character of the token does not validate.
C31_ValidOnlyOnCompleteToken ==
    \A f \in AllFields, m \in Messages :
        f \in DOMAIN lookup_addresses
        => \A order \in Orders(lookup_addresses[f]) :
              \A r \in {verify_message(f, m, order)} :
                 r.some
                 => \A new \in {r.val.field_status.challenge},
                       cur \in {identities[r.val.net_address][as_type(f)].challenge} :
                       /\ (new.type = "expect_message" /\ new.status = Valid)
                          => EchoesToken(new.expected_message, m)
                       /\ (/\ new.type = "back_and_forth"
                           /\ new.first_check_status = Valid
                           /\ cur.first_check_status # Valid)
                          => EchoesToken(new.expected_message, m)
                       /\ (/\ new.type = "back_and_forth"
                           /\ new.second_check_status = Valid
                           /\ cur.second_check_status # Valid)
                          => EchoesToken(new.expected_message_back, m)

\* C32 (an outcome is for the requested field): whatever verify_message
\* returns for a field and a message is an outcome whose status is for that
\* very field; a message from an address an identity no longer claims
\* never yields an outcome for the address that replaced it.
C32_OutcomeForRequestedField ==
    \A f \in AllFields, m \in Messages :
        f \in DOMAIN lookup_addresses
        => \A order \in Orders(lookup_addresses[f]) :
              \A r \in {verify_message(f, m, order)} :
                 r.some => r.val.field_status.field = f

\* The step is update_field applied to the stored outcome v.
Applies(v) ==
    /\ last'.op = "update_field"
    /\ last'.net_address = v.net_address
    /\ last'.field = v.field_status.field
    /\ last'.result = update_field(v).result
    /\ identities' = update_field(v).identities

\* C33 (a stale outcome is never committed over a replaced field): when
\* update_field is applied to an outcome that verify_message computed for a
\* field the identity has since replaced by another address, it commits
\* nothing: the entry stays the new field with its fresh challenge.
C33_StaleOutcomeNotCommitted ==
    [][\A v \in outcomes :
          (/\ Applies(v)
           /\ HasStatus(v.net_address, as_type(v.field_status.field))
           /\ identities[v.net_address][as_type(v.field_status.field)].field
                 # v.field_status.field)
          => /\ last'.result = Ok(None)
             /\ identities'[v.net_address][as_type(v.field_status.field)]
                  = identities[v.net_address][as_type(v.field_status.field)]]_vars

\* C34 (display names are unique): no two distinct network addresses hold
\* the same display name in display_names, however the display-name flows
\* of the identities interleave.
C34_DisplayNamesUnique ==
    \A a \in DOMAIN display_names, b \in DOMAIN display_names :
        display_names[a] = display_names[b] => a = b

\* The manager NamesSpec starts from is the one two insert_identity calls
\* leave.
NamesInitReached ==
    /\ nops = 2
    /\ last.op = "insert_identity"
    /\ identities = [a \in NetworkAddress |->
                        (CHOOSE identity \in Requests : identity.net_address = a).fields]
    /\ lookup_addresses = [f \in BobClaims |-> NetworkAddress]
    /\ display_names = <<>>
    /\ on_chain_challenges =
          [a \in NetworkAddress |->
              (CHOOSE identity \in Requests : identity.net_address = a).on_chain_challenge]

\* The field types whose challenge is Unsupported.
UnsupportedTypes == {"legal_name", "web", "pgp_fingerprint", "image", "additional"}

\* C35 (an Unsupported field bars full verification): in the replay flow,
\* as long as an identity claims a field of an unsupported type, the stored
\* challenge of that field is Unsupported and is_fully_verified is
\* Ok(false), whatever has been verified of its other fields.
C35_UnsupportedNeverFullyVerified ==
    \A a \in DOMAIN identities, ty \in UnsupportedTypes :
        ty \in DOMAIN identities[a]
        => /\ identities[a][ty].challenge = Unsupported
           /\ is_fully_verified(a) = Ok(FALSE)

\* update_field just committed the last check of an identity that claims a
\* legal name: all its other fields are valid and it is not fully verified.
C35_Witness ==
    /\ last.op = "update_field"
    /\ last.result.ok
    /\ last.result.val.some
    /\ HasStatus(last.net_address, "legal_name")
    /\ \A ty \in DOMAIN identities[last.net_address] :
          ty # "legal_name" => is_valid(identities[last.net_address][ty])
    /\ \E ty \in DOMAIN identities[last.net_address] : ty # "legal_name"
    /\ is_fully_verified(last.net_address) = Ok(FALSE)

\* C36 (fully verified needs a field): is_fully_verified is Ok(true) only
\* for an identity that has at least one field; an identity inserted with
\* no field, or reconciled down to none, is not reported fully verified.
C36_FullyVerifiedHasAField ==
    \A a \in DOMAIN identities :
        is_fully_verified(a) = Ok(TRUE) => DOMAIN identities[a] # {}

\* The calls completed for an e-mail when its id may be marked processed.
ProcessedWithoutChallenge == <<"select_challenge_data">>

ProcessedInFull ==
    <<"select_challenge_data", "verify", "verification_handler", "send_message">>

\* The call of handle_incoming_messages has returned with an error.
Failed(e) == e.pc = "idle" /\ ~e.result.ok

\* C37 (an e-mail id is marked processed only once it was processed): a
\* step of handle_incoming_messages marks an id only when, in this poll,
\* either no challenge data was found for its sender or its messages were
\* verified, verification_handler completed and the response was sent; a
\* poll that ends with the error of one of those calls leaves the id
\* unmarked, every unmarked id of a later poll is in its list of unknown
\* ids again, and the messages of a marked id are never verified again.
C37_TrackedOnlyWhenProcessed ==
    [][/\ \A id \in EmailIds :
             (id \notin email.tracked /\ id \in email'.tracked)
             => /\ email.pc = "track_email_id"
                /\ id = email_id
                /\ \/ /\ email.challenge_data = {}
                      /\ email.done = ProcessedWithoutChallenge
                   \/ /\ email.challenge_data # {}
                      /\ email.done = ProcessedInFull
       /\ (/\ email.pc \in {"select_challenge_data", "verify", "verification_handler",
                            "send_message", "track_email_id"}
           /\ Failed(email'))
          => email_id \notin email'.tracked
       /\ email.pc = "find_untracked_email_ids" /\ ~Failed(email')
          => \A m \in email.messages :
                m.id \notin email.tracked
                => \E i \in DOMAIN email'.unknown : email'.unknown[i] = m.id
       /\ \A id \in EmailIds :
             email'.verified[id] # email.verified[id] => id \notin email.tracked
       /\ email.tracked \subseteq email'.tracked]_vars

\* An e-mail whose processing failed in one poll was verified again in the
\* next and is now marked processed, next to one marked for want of
\* challenge data.
C37_Witness ==
    /\ email.verified[1] = 2
    /\ email.tracked = {1, 2}
    /\ email.polls = 2

\* The waits of a loop whose attempts all failed.
RejoinDelays == <<3, 6, 12, 24, 48>>

\* The join loop of the room is over.
Over(room) == matrix[room].pc \in {"joined", "gave_up"}

\* The loop made at most REJOIN_MAX_ATTEMPTS attempts, waited 3, 6, 12, 24,
\* 48 seconds after its failures in turn, stopped at its first success and
\* gave up after the fifth failure.
JoinLoopBounded ==
    \A room \in Rooms :
        LET r == matrix[room]
        IN  /\ r.joins <= REJOIN_MAX_ATTEMPTS
            /\ Len(r.slept) <= Len(RejoinDelays)
            /\ r.slept = SubSeq(RejoinDelays, 1, Len(r.slept))
            /\ r.pc = "joined" => r.joins = Len(r.slept) + 1
            /\ r.pc = "gave_up" => r.joins = REJOIN_MAX_ATTEMPTS /\ r.slept = RejoinDelays
            /\ r.pc = "join_room_by_id" => r.joins = Len(r.slept) /\ r.joins < REJOIN_MAX_ATTEMPTS

\* C38 (the join loop terminates): on an invite the loop makes at most five
\* join attempts, waits 3, 6, 12, 24, 48 seconds after successive failures,
\* makes no attempt after a success or after the fifth failure, and is
\* always over in the end.
C38_JoinLoopTerminates ==
    /\ []JoinLoopBounded
    /\ [][\A room \in Rooms : Over(room) => matrix'[room] = matrix[room]]_vars
    /\ \A room \in Rooms : (matrix[room].pc # "none") ~> Over(room)

\* One loop gave up after five failures and all five waits; the other
\* joined at its third attempt.
C38_Witness ==
    /\ matrix["r1"].pc = "gave_up"
    /\ matrix["r1"].slept = RejoinDelays
    /\ matrix["r2"].pc = "joined"
    /\ matrix["r2"].joins = 3
    /\ matrix["r2"].slept = <<3, 6>>

\* The identity the pending_identities store holds for the address.
stored(a) == from_json(manager.db.pending_identities[a])

\* The identity of the address in memory is persisted: the store holds it
\* under its address, as it is in memory or, while a later request for the
\* address has been written and is not in memory yet, as that request.
Persisted(a) ==
    /\ a \in DOMAIN manager.db.pending_identities
    /\ \/ stored(a) = manager.idents[a]
       \/ /\ manager.ident.some
          /\ manager.ident.val.network_address.address = a
          /\ stored(a) = manager.ident.val

\* C39 (what is in memory is persisted): at every point, also after a
\* failed write or when the process is killed, every pending identity in
\* memory is in the pending_identities store, an adapter is informed only of
\* a persisted address, and a restart reads back every identity that was in
\* memory before it, as the store holds it.
C39_MemoryIsPersisted ==
    /\ [](\A a \in DOMAIN manager.idents :
             /\ manager.idents[a].network_address.address = a
             /\ Persisted(a))
    /\ [](\A msg \in manager.informed :
             /\ msg.network_address.address \in DOMAIN manager.db.pending_identities
             /\ manager.pc # "stopped"
                => msg.network_address.address \in DOMAIN manager.idents)
    /\ [][(manager.pc = "stopped" /\ manager'.pc # "stopped")
          => /\ manager'.rehydrated = DOMAIN manager.db.pending_identities
             /\ \A a \in DOMAIN manager.idents :
                   /\ a \in DOMAIN manager'.idents
                   /\ manager'.idents[a] = stored(a)
                   /\ \/ manager'.idents[a] = manager.idents[a]
                      \/ /\ manager.ident.some
                         /\ manager'.idents[a] = manager.ident.val]_vars

\* A restarted manager has read back both alice, as registered the second
\* time, and bob.
C39_Witness ==
    /\ manager.pc = "try_recv"
    /\ manager.rehydrated = {"alice", "bob"}
    /\ DOMAIN manager.idents = {"alice", "bob"}
    /\ manager.idents["alice"].display_name = Some("Alice")
    /\ manager.idents["bob"].matrix = None
    /\ manager.informed # {}

====
